---- MODULE Spec2Model ----
(***************************************************************************)
(* A model of seroval: the string escape (string.ts), the identity         *)
(* registry (tree/reference.ts), the async parser (tree/async.ts), the     *)
(* emitter (tree/serialize.ts) and the entry points (index.ts).            *)
(***************************************************************************)
EXTENDS Integers, Sequences, FiniteSets, TLC

VARIABLES
  str,            \* string.ts: the argument of serializeString
  ser,            \* string.ts: the value serializeString returned
  deser,          \* string.ts: the value deserializeString returned
  pcStr,          \* which of the two string calls have returned
  REFERENCE,      \* reference.ts: Map value -> key
  INV_REFERENCE,  \* reference.ts: Map key -> value
  heap,           \* the input graph: address -> object
  source,         \* index.ts: the `source` argument of the entry point
  options,        \* index.ts: options.disabledFeatures, a set of flags
  api,            \* index.ts: the entry point that was called
  call,           \* async.ts: the parse in progress (context, frames)
  outcome,        \* index.ts: what the entry point's promise settled to
  compiled,       \* index.ts: what compileJSON returned for the envelope
  calls,          \* index.ts: two calls in progress at the same time
  settled,        \* the input promises that have settled
  emit            \* index.ts: a call of compileJSON on a given envelope

vars == <<str, ser, deser, pcStr, REFERENCE, INV_REFERENCE,
          heap, source, options, api, call, outcome, compiled,
          calls, settled, emit>>

strVars == <<str, ser, deser, pcStr>>
regVars == <<REFERENCE, INV_REFERENCE>>
inputVars == <<heap, source, options>>
callVars == <<api, call, outcome, compiled>>
pairVars == <<calls, settled>>

(***************************************************************************)
(* Bounds of the model.                                                    *)
(***************************************************************************)
MaxStrLen == 2      \* longest input string of serializeString
MaxKeys == 3        \* registry keys offered to createReference
MaxVals == 3        \* registry values offered to createReference
MaxObjs == 2        \* objects of the input graph
MaxKids == 2        \* elements, entries or properties of one object
MaxEdges == 3       \* kids of all the objects of the graph together
MaxSpecial == 1     \* objects that are not an Array, Object, Set, Map, Promise, Iterable
MaxDisabled == 1    \* flags in options.disabledFeatures
MaxRegistered == 1  \* objects of the graph that are in the registry

(***************************************************************************)
(* string.ts.  A string is a sequence of code points; a code point is a    *)
(* one-element name: the ten escaped ones by name, the others by glyph.    *)
(***************************************************************************)
EscapedChars ==
  {"QUOTE", "BACKSLASH", "LF", "CR", "BS", "TAB", "FF", "LT", "U2028", "U2029"}

Alphabet ==
  EscapedChars \cup {"n", "r", "b", "t", "f", "x", "u"}
               \cup {"0", "2", "3", "8", "9", "C", "a"}

\* serializeChar: the replacement text, or <<>> for `undefined`.
serializeChar(c) ==
  CASE c = "QUOTE"     -> <<"BACKSLASH", "QUOTE">>
    [] c = "BACKSLASH" -> <<"BACKSLASH", "BACKSLASH">>
    [] c = "LF"        -> <<"BACKSLASH", "n">>
    [] c = "CR"        -> <<"BACKSLASH", "r">>
    [] c = "BS"        -> <<"BACKSLASH", "b">>
    [] c = "TAB"       -> <<"BACKSLASH", "t">>
    [] c = "FF"        -> <<"BACKSLASH", "f">>
    [] c = "LT"        -> <<"BACKSLASH", "x", "3", "C">>
    [] c = "U2028"     -> <<"BACKSLASH", "u", "2", "0", "2", "8">>
    [] c = "U2029"     -> <<"BACKSLASH", "u", "2", "0", "2", "9">>
    [] OTHER           -> <<>>

\* str.slice(from, to) with 0-based from (inclusive) and to (exclusive).
slice(s, from, to) == SubSeq(s, from + 1, to)

\* A mutant of the loop: lastPos = i instead of lastPos = i + 1.
RECURSIVE serializeStringLoopKeepsChar(_, _, _, _)
serializeStringLoopKeepsChar(s, i, result, lastPos) ==
  IF i >= Len(s) THEN [result |-> result, lastPos |-> lastPos]
  ELSE LET replacement == serializeChar(s[i + 1])
       IN IF replacement # <<>>
          THEN serializeStringLoopKeepsChar(s, i + 1,
                 result \o slice(s, lastPos, i) \o replacement, i)
          ELSE serializeStringLoopKeepsChar(s, i + 1, result, lastPos)

\* The for loop of serializeString: i, result and lastPos are its locals.
RECURSIVE serializeStringLoop(_, _, _, _)
serializeStringLoop(s, i, result, lastPos) ==
  IF i >= Len(s) THEN [result |-> result, lastPos |-> lastPos]
  ELSE LET replacement == serializeChar(s[i + 1])
       IN IF replacement # <<>>
          THEN serializeStringLoop(s, i + 1,
                 result \o slice(s, lastPos, i) \o replacement, i + 1)
          ELSE serializeStringLoop(s, i + 1, result, lastPos)

serializeString(s) ==
  LET r == serializeStringLoop(s, 0, <<>>, 0)
  IN IF r.lastPos = 0 THEN s
     ELSE r.result \o slice(s, r.lastPos, Len(s))

\* String.prototype.replace with a global regex of literal text `pat`:
\* the matches are found left to right and do not overlap.
RECURSIVE replaceAll(_, _, _)
replaceAll(s, pat, rep) ==
  IF Len(s) < Len(pat) THEN s
  ELSE IF SubSeq(s, 1, Len(pat)) = pat
       THEN rep \o replaceAll(SubSeq(s, Len(pat) + 1, Len(s)), pat, rep)
       ELSE <<s[1]>> \o replaceAll(Tail(s), pat, rep)

\* The ten replace passes of deserializeString, in the order of the source.
deserializeString(s) ==
  LET p1  == replaceAll(s,  <<"BACKSLASH", "QUOTE">>, <<"QUOTE">>)
      p2  == replaceAll(p1, <<"BACKSLASH", "BACKSLASH">>, <<"BACKSLASH">>)
      p3  == replaceAll(p2, <<"BACKSLASH", "n">>, <<"LF">>)
      p4  == replaceAll(p3, <<"BACKSLASH", "r">>, <<"CR">>)
      p5  == replaceAll(p4, <<"BACKSLASH", "b">>, <<"BS">>)
      p6  == replaceAll(p5, <<"BACKSLASH", "t">>, <<"TAB">>)
      p7  == replaceAll(p6, <<"BACKSLASH", "f">>, <<"FF">>)
      p8  == replaceAll(p7, <<"BACKSLASH", "x", "3", "C">>, <<"LT">>)
      p9  == replaceAll(p8, <<"BACKSLASH", "u", "2", "0", "2", "8">>, <<"U2028">>)
      p10 == replaceAll(p9, <<"BACKSLASH", "u", "2", "0", "2", "9">>, <<"U2029">>)
  IN p10

\* All strings over Alphabet of length at most n.
RECURSIVE StringsUpTo(_)
StringsUpTo(n) ==
  IF n = 0 THEN {<<>>}
  ELSE LET shorter == StringsUpTo(n - 1)
       IN shorter \cup {Append(s, c) : s \in shorter, c \in Alphabet}

(***************************************************************************)
(* tree/reference.ts.  Keys and values are small integers here; a Map is   *)
(* a function whose domain is the set of its keys.                         *)
(***************************************************************************)
Keys == 1..MaxKeys
RegVals == 1..MaxVals

EmptyMap == [k \in {} |-> 0]

\* Map.prototype.set
MapSet(m, k, v) == (k :> v) @@ m

hasReferenceID(value) == value \in DOMAIN REFERENCE
hasReference(id) == id \in DOMAIN INV_REFERENCE
getReferenceID(value) == REFERENCE[value]
getReference(id) == INV_REFERENCE[id]

(***************************************************************************)
(* The input graph.  A value is an integer: 0 is a number primitive, a     *)
(* positive integer is the address of an object of the heap, -1 is the     *)
(* absent element of a sparse array, and an integer below -1 names an      *)
(* object the parser itself creates (Array.from(...), arrayBuffer()).      *)
(* An object is [kind, kids, vals]: kids are the elements (Array, Set),    *)
(* the keys (Map), the own enumerable property values (Object, NullProto,  *)
(* Iterable, Error options, Headers, FormData) or the settled value        *)
(* (Promise, Thenable; no kid: the promise rejects); vals are the values   *)
(* of a Map and the items an Iterable yields.                              *)
(***************************************************************************)
Addrs == 1..MaxObjs

IsHole(v) == v = 0 - 1
IsNumber(v) == v = 0
IsObject(v) == v > 0

ListKinds == {"Array", "Set"}
RecordKinds == {"Object", "NullProto", "Error", "AggregateError",
                "AggregateErrorSubclass", "Headers", "FormData"}
PromiseKinds == {"Promise", "Thenable"}
LeafKinds == {"Date", "URL", "URLSearchParams", "Blob", "File", "Unsupported"}
Kinds == ListKinds \cup RecordKinds \cup PromiseKinds \cup LeafKinds
           \cup {"Map", "Iterable"}

\* The i-th own property key of an object: "a", "b", "c", ...
KeyChars == <<"a", "b", "c", "d", "e", "f">>
KeyName(i) == <<KeyChars[i]>>

(***************************************************************************)
(* compat.ts and context.ts (the parser's half).                           *)
(***************************************************************************)
Feature ==
  {"AggregateError", "ArrayPrototypeValues", "ArrowFunction", "BigInt",
   "ErrorPrototypeStack", "Map", "MethodShorthand", "ObjectAssign",
   "Promise", "Set", "Symbol", "TypedArray", "BigIntTypedArray", "WebAPI"}

ALL_ENABLED == Feature

createParserContext(opts) ==
  [refs |-> <<>>, markedRefs |-> {}, features |-> ALL_ENABLED \ opts]

markRef(ctx, id) == [ctx EXCEPT !.markedRefs = @ \cup {id}]

\* ctx.refs is the sequence of the interned values: the id of refs[k] is k - 1.
createIndexedValue(ctx, current) ==
  IF \E k \in 1..Len(ctx.refs) : ctx.refs[k] = current
  THEN LET ref == (CHOOSE k \in 1..Len(ctx.refs) : ctx.refs[k] = current) - 1
       IN [ctx |-> markRef(ctx, ref), id |-> ref]
  ELSE [ctx |-> [ctx EXCEPT !.refs = Append(@, current)], id |-> Len(ctx.refs)]

getRootID(ctx, current) ==
  IF \E k \in 1..Len(ctx.refs) : ctx.refs[k] = current
  THEN (CHOOSE k \in 1..Len(ctx.refs) : ctx.refs[k] = current) - 1
  ELSE Len(ctx.refs)

\* An object made during the parse: it is in no table yet.
FreshObject(ctx) == 0 - (Len(ctx.refs) + 2)

\* shared.ts
isIterable(v) == IsObject(v) /\ heap[v].kind = "Iterable"

(***************************************************************************)
(* The IR.  A node is a record of the slots its variant uses; a slot that  *)
(* the source sets to `undefined` holds UNDEFINED, an index of            *)
(* `new Array(n)` that was never written holds HOLE.                       *)
(***************************************************************************)
UNDEFINED == [t |-> "undefined"]
HOLE == [t |-> "hole"]

\* JSON's null.
NULL == [t |-> "null"]

\* if (x): a node is truthy; undefined, an array hole and null are not.
Truthy(x) == x.t \notin {"undefined", "hole", "null"}

\* node.slot, `undefined` when the record has no such slot.
Get(node, slot) == IF slot \in DOMAIN node THEN node[slot] ELSE UNDEFINED

\* A string that stands where a node may stand too (a key of a record).
Text(chars) == [t |-> "text", s |-> chars]

NewArray(n) == [k \in 1..n |-> HOLE]

\* tree/primitives.ts
createNumberNode(v) == [t |-> "Primitive", s |-> <<"0">>]
createIndexedValueNode(id) == [t |-> "IndexedValue", i |-> id]
createReferenceNode(id, current) ==
  [t |-> "Reference", i |-> id, s |-> getReferenceID(current)]
createDateNode(id, current) == [t |-> "Date", i |-> id, s |-> <<"0">>]
createWKSymbolNode(ctx, sym) == [t |-> "WKSymbol", s |-> sym]
createArrayBufferNode(id, current) == [t |-> "ArrayBuffer", i |-> id, s |-> <<>>]

serializeArrayBuffer(ctx, current) ==
  LET r == createIndexedValue(ctx, current)
  IN [ctx |-> r.ctx,
      node |-> IF r.id \in r.ctx.markedRefs
               THEN createIndexedValueNode(r.id)
               ELSE createArrayBufferNode(r.id, current)]

\* shared.ts
getErrorConstructorName(current) == "Error"
getErrorOptions(ctx, current) == heap[current].kids

(***************************************************************************)
(* tree/async.ts.  `call` is one run of parseAsync: its context, the       *)
(* frames of the async functions that are suspended at an await (the       *)
(* innermost last), and what the innermost one waits for: the node a       *)
(* callee returned ("node"), the settling of an input promise ("then")     *)
(* or the bytes of a Blob ("buffer").  An async function runs without      *)
(* interruption from one await to the next.                                *)
(***************************************************************************)
Return(p, node) == [p EXCEPT !.wait = "node", !.ret = node]

Throw(p, message) ==
  [p EXCEPT !.status = "rejected", !.wait = "none", !.ret = UNDEFINED,
            !.frames = <<>>, !.error = message]

Suspend(p, frame, what) ==
  [p EXCEPT !.frames = Append(@, frame), !.wait = what, !.ret = UNDEFINED]

HasFeature(ctx, flag) == flag \in ctx.features

RECURSIVE parse(_, _)
RECURSIVE nodeListLoop(_, _)
RECURSIVE setLoop(_, _)
RECURSIVE mapLoop(_, _)
RECURSIVE propertiesLoop(_, _)

\* `await parse(ctx, item)` inside the function whose frame is fr.
AwaitParse(p, fr, item) == parse([p EXCEPT !.frames = Append(@, fr)], item)

\* A mutant: an iterable element is parsed where it stands.
nodeListLoopInPlace(p, fr) ==
  LET size == Len(fr.current)
  IN IF fr.phase = 1
     THEN IF fr.i >= size
          THEN nodeListLoop(p, [fr EXCEPT !.phase = 2, !.i = 0])
          ELSE IF IsHole(fr.current[fr.i + 1])
               THEN nodeListLoop(p, [fr EXCEPT !.i = @ + 1])
               ELSE AwaitParse(p, fr, fr.current[fr.i + 1])
     ELSE Return(p, [t |-> "Array", i |-> fr.id, l |-> size, a |-> fr.nodes])

\* generateNodeList, from the loop position (phase, i) of the frame on.
nodeListLoop(p, fr) ==
  LET size == Len(fr.current)
  IN IF fr.phase = 1
     THEN IF fr.i >= size
          THEN nodeListLoop(p, [fr EXCEPT !.phase = 2, !.i = 0])
          ELSE LET item == fr.current[fr.i + 1]
               IN IF IsHole(item)
                  THEN nodeListLoop(p, [fr EXCEPT !.i = @ + 1])
                  ELSE IF isIterable(item)
                  THEN nodeListLoop(p, [fr EXCEPT !.deferred[fr.i + 1] = item,
                                                  !.i = @ + 1])
                  ELSE AwaitParse(p, fr, item)
     ELSE IF fr.i >= size
          THEN \* generateArrayNode
               Return(p, [t |-> "Array", i |-> fr.id, l |-> size, a |-> fr.nodes])
          ELSE IF IsHole(fr.deferred[fr.i + 1])
               THEN nodeListLoop(p, [fr EXCEPT !.i = @ + 1])
               ELSE AwaitParse(p, fr, fr.deferred[fr.i + 1])

generateArrayNode(p, id, current) ==
  nodeListLoop(p, [fn |-> "generateNodeList", id |-> id, current |-> current,
                   nodes |-> NewArray(Len(current)),
                   deferred |-> [k \in 1..Len(current) |-> 0 - 1],
                   phase |-> 1, i |-> 0])

\* generateSetNode, from the loop position of the frame on.
setLoop(p, fr) ==
  LET len == Len(fr.current)
  IN IF fr.phase = 1
     THEN IF fr.i >= len
          THEN setLoop(p, [fr EXCEPT !.phase = 2, !.i = 0])
          ELSE LET item == fr.current[fr.i + 1]
               IN IF isIterable(item)
                  THEN setLoop(p, [fr EXCEPT !.deferred = Append(@, item),
                                             !.i = @ + 1])
                  ELSE AwaitParse(p, fr, item)
     ELSE IF fr.i >= Len(fr.deferred)
          THEN Return(p, [t |-> "Set", i |-> fr.id, l |-> len, a |-> fr.nodes])
          ELSE AwaitParse(p, fr, fr.deferred[fr.i + 1])

generateSetNode(p, id, current) ==
  IF ~HasFeature(p.ctx, "Set") THEN Throw(p, "Unsupported type \"Set\"")
  ELSE setLoop(p, [fn |-> "generateSetNode", id |-> id, current |-> current,
                   nodes |-> NewArray(Len(current)), deferred |-> <<>>,
                   nodeSize |-> 0, phase |-> 1, i |-> 0])

\* generateMapNode, from the loop position of the frame on; fr.at tells
\* whether the key or the value of entry i is parsed next.
mapLoop(p, fr) ==
  LET len == Len(fr.keys)
  IN IF fr.phase = 1
     THEN IF fr.i >= len
          THEN mapLoop(p, [fr EXCEPT !.phase = 2, !.i = 0])
          ELSE LET key == fr.keys[fr.i + 1]
                   value == fr.values[fr.i + 1]
               IN IF fr.at = "key" /\ (isIterable(key) \/ isIterable(value))
                  THEN mapLoop(p, [fr EXCEPT !.deferredKey = Append(@, key),
                                             !.deferredValue = Append(@, value),
                                             !.i = @ + 1])
                  ELSE AwaitParse(p, fr, IF fr.at = "key" THEN key ELSE value)
     ELSE IF fr.i >= Len(fr.deferredKey)
          THEN Return(p, [t |-> "Map", i |-> fr.id,
                          d |-> [k |-> fr.keyNodes, v |-> fr.valueNodes, s |-> len]])
          ELSE AwaitParse(p, fr, IF fr.at = "key" THEN fr.deferredKey[fr.i + 1]
                                 ELSE fr.deferredValue[fr.i + 1])

generateMapNode(p, id, current) ==
  IF ~HasFeature(p.ctx, "Map") THEN Throw(p, "Unsupported type \"Map\"")
  ELSE mapLoop(p, [fn |-> "generateMapNode", id |-> id,
                   keys |-> heap[current].kids, values |-> heap[current].vals,
                   keyNodes |-> NewArray(Len(heap[current].kids)),
                   valueNodes |-> NewArray(Len(heap[current].kids)),
                   deferredKey |-> <<>>, deferredValue |-> <<>>,
                   nodeSize |-> 0, phase |-> 1, i |-> 0, at |-> "key"])

\* generateProperties and generatePlainProperties (the same two loops; only
\* generateProperties goes on to the Symbol.iterator entry), from the loop
\* position of the frame on.  fr.owner is the node the caller builds
\* around the record.
propertiesLoop(p, fr) ==
  IF fr.phase = 1
  THEN IF fr.i >= Len(fr.keys)
       THEN propertiesLoop(p, [fr EXCEPT !.phase = 2, !.i = 0])
       ELSE LET item == fr.properties[fr.i + 1]
                escaped == Text(serializeString(fr.keys[fr.i + 1]))
            IN IF isIterable(item)
               THEN propertiesLoop(p, [fr EXCEPT !.deferredKeys = Append(@, escaped),
                                                 !.deferredValues = Append(@, item),
                                                 !.i = @ + 1])
               ELSE AwaitParse(p, [fr EXCEPT !.keyNodes[fr.nodesSize + 1] = escaped],
                               item)
  ELSE IF fr.phase = 2
  THEN IF fr.i >= Len(fr.deferredKeys)
       THEN IF /\ fr.fn = "generateProperties"
               /\ HasFeature(p.ctx, "Symbol")
               /\ fr.hasIterator
            THEN LET items == FreshObject(p.ctx)
                     r == createIndexedValue(p.ctx, items)
                     waiting == [fr EXCEPT !.phase = 3,
                                   !.keyNodes = Append(@, createWKSymbolNode(p.ctx, "iterator"))]
                 IN generateArrayNode([p EXCEPT !.ctx = r.ctx,
                                                !.frames = Append(@, waiting)],
                                      r.id, fr.items)
            ELSE propertiesLoop(p, [fr EXCEPT !.phase = 4])
       ELSE AwaitParse(p, [fr EXCEPT !.keyNodes[fr.nodesSize + fr.i + 1] =
                                        fr.deferredKeys[fr.i + 1]],
                       fr.deferredValues[fr.i + 1])
  ELSE Return(p, [fr.owner EXCEPT !.d = [k |-> fr.keyNodes, v |-> fr.valueNodes,
                                         s |-> fr.size]])

PropertiesFrame(fn, owner, properties, hasIterator, items) ==
  [fn |-> fn, owner |-> owner,
   keys |-> [k \in 1..Len(properties) |-> KeyName(k)],
   properties |-> properties, hasIterator |-> hasIterator, items |-> items,
   size |-> Len(properties),
   keyNodes |-> NewArray(Len(properties)), valueNodes |-> NewArray(Len(properties)),
   deferredKeys |-> <<>>, deferredValues |-> <<>>,
   nodesSize |-> 0, phase |-> 1, i |-> 0]

generateProperties(p, owner, current) ==
  propertiesLoop(p, PropertiesFrame("generateProperties", owner,
                                    heap[current].kids,
                                    heap[current].kind = "Iterable",
                                    heap[current].vals))

generatePlainProperties(p, owner, current) ==
  propertiesLoop(p, PropertiesFrame("generatePlainProperties", owner,
                                    heap[current].kids, FALSE, <<>>))

\* A mutant: the assertion on the Promise flag is missing.
generatePromiseNodeNoAssert(p, id, current) ==
  Suspend(p, [fn |-> "generatePromiseNode", id |-> id, current |-> current], "then")

generatePromiseNode(p, id, current) ==
  IF ~HasFeature(p.ctx, "Promise") THEN Throw(p, "Unsupported type \"Promise\"")
  ELSE Suspend(p, [fn |-> "generatePromiseNode", id |-> id, current |-> current],
               "then")

generateObjectNode(p, id, current, empty) ==
  IF heap[current].kind = "Thenable"
  THEN generatePromiseNode(p, id, current)
  ELSE generateProperties(p, [t |-> IF empty THEN "NullConstructor" ELSE "Object",
                              i |-> id, d |-> UNDEFINED], current)

generateAggregateErrorNode(p, id, current) ==
  LET owner == [t |-> "AggregateError", i |-> id, m |-> serializeString(<<"m">>),
                d |-> UNDEFINED]
  IN IF getErrorOptions(p.ctx, current) # <<>>
     THEN generateProperties(p, owner, current)
     ELSE Return(p, owner)

generateErrorNode(p, id, current) ==
  LET owner == [t |-> "Error", i |-> id, c |-> getErrorConstructorName(current),
                m |-> serializeString(<<"m">>), d |-> UNDEFINED]
  IN IF getErrorOptions(p.ctx, current) # <<>>
     THEN generateProperties(p, owner, current)
     ELSE Return(p, owner)

generateHeadersNode(p, id, current) ==
  IF ~HasFeature(p.ctx, "WebAPI") THEN Throw(p, "Unsupported type \"Headers\"")
  ELSE generatePlainProperties(p, [t |-> "Headers", i |-> id, d |-> UNDEFINED],
                               current)

generateFormDataNode(p, id, current) ==
  IF ~HasFeature(p.ctx, "WebAPI") THEN Throw(p, "Unsupported type \"FormData\"")
  ELSE generatePlainProperties(p, [t |-> "FormData", i |-> id, d |-> UNDEFINED],
                               current)

\* web-api.ts
createURLNode(p, id, current) ==
  IF ~HasFeature(p.ctx, "WebAPI") THEN Throw(p, "Unsupported type \"URL\"")
  ELSE Return(p, [t |-> "URL", i |-> id, s |-> serializeString(<<"u">>)])

createURLSearchParamsNode(p, id, current) ==
  IF ~HasFeature(p.ctx, "WebAPI")
  THEN Throw(p, "Unsupported type \"URLSearchParams\"")
  ELSE Return(p, [t |-> "URLSearchParams", i |-> id, s |-> serializeString(<<"u">>)])

createBlobNode(p, id, current) ==
  IF ~HasFeature(p.ctx, "WebAPI") THEN Throw(p, "Unsupported type \"Blob\"")
  ELSE Suspend(p, [fn |-> "createBlobNode", id |-> id, current |-> current],
               "buffer")

createFileNode(p, id, current) ==
  IF ~HasFeature(p.ctx, "WebAPI") THEN Throw(p, "Unsupported type \"File\"")
  ELSE Suspend(p, [fn |-> "createFileNode", id |-> id, current |-> current],
               "buffer")

\* A mutant: the registry is asked before the marked set.
parseKnownRegistryFirst(ctx, id, current) ==
  IF hasReferenceID(current) THEN createReferenceNode(id, current)
  ELSE IF id \in ctx.markedRefs THEN createIndexedValueNode(id)
  ELSE UNDEFINED

\* parse: the node of a value that is not decomposed, a back-reference to a
\* marked id or a Reference to a registered value; UNDEFINED for any other.
parseKnown(ctx, id, current) ==
  IF id \in ctx.markedRefs THEN createIndexedValueNode(id)
  ELSE IF hasReferenceID(current) THEN createReferenceNode(id, current)
  ELSE UNDEFINED

\* A mutant: the AggregateError flag is not looked at.
parseAggregateErrorAlways(p, id, current) ==
  generateAggregateErrorNode(p, id, current)

\* parse: an AggregateError, by its constructor or by instanceof.
parseAggregateError(p, id, current) ==
  IF HasFeature(p.ctx, "AggregateError")
  THEN generateAggregateErrorNode(p, id, current)
  ELSE generateErrorNode(p, id, current)

\* parse, for the values of the model: a number or an object.
parse(p, current) ==
  IF IsNumber(current) THEN Return(p, createNumberNode(current))
  ELSE
    LET r == createIndexedValue(p.ctx, current)
        id == r.id
        q == [p EXCEPT !.ctx = r.ctx]
        kind == heap[current].kind
    IN IF Truthy(parseKnown(q.ctx, id, current))
       THEN Return(q, parseKnown(q.ctx, id, current))
       ELSE IF kind = "Array" THEN generateArrayNode(q, id, heap[current].kids)
       ELSE CASE kind = "Date" -> Return(q, createDateNode(id, current))
              [] kind = "Promise" -> generatePromiseNode(q, id, current)
              [] kind = "Map" -> generateMapNode(q, id, current)
              [] kind = "Set" -> generateSetNode(q, id, heap[current].kids)
              [] kind \in {"Object", "Thenable", "Iterable"} ->
                   generateObjectNode(q, id, current, FALSE)
              [] kind = "NullProto" -> generateObjectNode(q, id, current, TRUE)
              [] kind \in {"AggregateError", "AggregateErrorSubclass"} ->
                   parseAggregateError(q, id, current)
              [] kind = "Error" -> generateErrorNode(q, id, current)
              [] kind = "URL" -> createURLNode(q, id, current)
              [] kind = "URLSearchParams" -> createURLSearchParamsNode(q, id, current)
              [] kind = "Blob" -> createBlobNode(q, id, current)
              [] kind = "File" -> createFileNode(q, id, current)
              [] kind = "Headers" -> generateHeadersNode(q, id, current)
              [] kind = "FormData" -> generateFormDataNode(q, id, current)
              [] OTHER -> Throw(q, "Unsupported type")

\* The function suspended in frame fr resumes with the node its callee
\* returned, and runs to its next await or to its return.
Resume(p, fr, node) ==
  CASE fr.fn = "generateNodeList" ->
         nodeListLoop(p, [fr EXCEPT !.nodes[fr.i + 1] = node, !.i = @ + 1])
    [] fr.fn = "generateSetNode" ->
         IF fr.phase = 1
         THEN setLoop(p, [fr EXCEPT !.nodes[fr.nodeSize + 1] = node,
                                    !.nodeSize = @ + 1, !.i = @ + 1])
         ELSE setLoop(p, [fr EXCEPT !.nodes[fr.nodeSize + fr.i + 1] = node,
                                    !.i = @ + 1])
    [] fr.fn = "generateMapNode" ->
         LET slot == IF fr.phase = 1 THEN fr.nodeSize + 1
                     ELSE fr.nodeSize + fr.i + 1
         IN IF fr.at = "key"
            THEN mapLoop(p, [fr EXCEPT !.keyNodes[slot] = node, !.at = "value"])
            ELSE mapLoop(p, [fr EXCEPT !.valueNodes[slot] = node, !.at = "key",
                                       !.nodeSize = IF fr.phase = 1 THEN @ + 1 ELSE @,
                                       !.i = @ + 1])
    [] fr.fn \in {"generateProperties", "generatePlainProperties"} ->
         IF fr.phase = 1
         THEN propertiesLoop(p, [fr EXCEPT !.valueNodes[fr.nodesSize + 1] = node,
                                           !.nodesSize = @ + 1, !.i = @ + 1])
         ELSE IF fr.phase = 2
         THEN propertiesLoop(p, [fr EXCEPT !.valueNodes[fr.nodesSize + fr.i + 1] = node,
                                           !.i = @ + 1])
         ELSE propertiesLoop(p, [fr EXCEPT !.valueNodes = Append(@, node),
                                           !.size = @ + 1, !.phase = 4])
    [] fr.fn = "generatePromiseNode" ->
         Return(p, [t |-> "Promise", i |-> fr.id, f |-> node])

\* A mutant: a rejection of the input promise is taken for the value undefined.
thenCallbackSwallows(p, fr) ==
  IF heap[fr.current].kids = <<>>
  THEN Return(p, [t |-> "Promise", i |-> fr.id, f |-> UNDEFINED])
  ELSE AwaitParse(p, fr, heap[fr.current].kids[1])

\* current.then(async (value) => ...) of generatePromiseNode, once the input
\* promise has settled: there is no rejection handler.
thenCallback(p, fr) ==
  IF heap[fr.current].kids = <<>>
  THEN Throw(p, "rejected")
  ELSE AwaitParse(p, fr, heap[fr.current].kids[1])

\* createBlobNode / createFileNode after `await current.arrayBuffer()`.
bufferRead(p, fr) ==
  LET r == serializeArrayBuffer(p.ctx, FreshObject(p.ctx))
      q == [p EXCEPT !.ctx = r.ctx]
  IN IF fr.fn = "createBlobNode"
     THEN Return(q, [t |-> "Blob", i |-> fr.id, c |-> serializeString(<<"t">>),
                     f |-> r.node])
     ELSE Return(q, [t |-> "File", i |-> fr.id, c |-> serializeString(<<"t">>),
                     m |-> serializeString(<<"n">>), f |-> r.node, b |-> 0])

Top(frames) == frames[Len(frames)]
Pop(frames) == SubSeq(frames, 1, Len(frames) - 1)


(***************************************************************************)
(* context.ts (the emitter's half) and quote.ts.  An emitted text is a     *)
(* sequence of lexemes and code points.                                    *)
(***************************************************************************)
createSerializationContext(opts) ==
  [stack |-> <<>>, vars |-> <<>>, assignments |-> <<>>,
   features |-> opts.features, markedRefs |-> opts.markedRefs]

getIdentifier(id) == "v" \o ToString(id)

\* The variable of an id; it is added to ctx.vars when it is first asked for.
getRefParam(ctx, id) ==
  LET name == getIdentifier(id)
  IN [ctx |-> IF \E k \in 1..Len(ctx.vars) : ctx.vars[k] = name THEN ctx
              ELSE [ctx EXCEPT !.vars = Append(@, name)],
      name |-> name]

quote(s) == <<"QUOTE">> \o s \o <<"QUOTE">>

\* The result of an emitter method: the text and the context it leaves, or
\* the exception it throws.
Ok(ctx, out) == [ok |-> TRUE, ctx |-> ctx, out |-> out, error |-> ""]
Fail(ctx, message) == [ok |-> FALSE, ctx |-> ctx, out |-> <<>>, error |-> message]

(***************************************************************************)
(* tree/serialize.ts: the deferred assignments.                            *)
(***************************************************************************)
getAssignmentExpression(assignment) ==
  CASE assignment.t = "index" -> assignment.s \o <<"=">> \o assignment.v
    [] assignment.t = "map" ->
         assignment.s \o <<".set(">> \o assignment.k \o <<",">> \o assignment.v \o <<")">>
    [] assignment.t = "set" -> assignment.s \o <<".add(">> \o assignment.v \o <<")">>
    [] OTHER -> <<>>

RECURSIVE mergeAssignmentsLoop(_, _, _, _, _)
mergeAssignmentsLoop(assignments, i, newAssignments, current, prev) ==
  IF i > Len(assignments) THEN Append(newAssignments, current)
  ELSE LET item == assignments[i]
       IN IF item.t = prev.t /\ item.t = "index" /\ item.v = prev.v
          THEN mergeAssignmentsLoop(assignments, i + 1, newAssignments,
                 [t |-> "index", s |-> item.s, k |-> <<>>,
                  v |-> getAssignmentExpression(current)], item)
          ELSE IF item.t = prev.t /\ item.t = "map" /\ item.s = prev.s
          THEN mergeAssignmentsLoop(assignments, i + 1, newAssignments,
                 [t |-> "map", s |-> getAssignmentExpression(current),
                  k |-> item.k, v |-> item.v], item)
          ELSE IF item.t = prev.t /\ item.t = "set" /\ item.s = prev.s
          THEN mergeAssignmentsLoop(assignments, i + 1, newAssignments,
                 [t |-> "set", s |-> getAssignmentExpression(current),
                  k |-> <<>>, v |-> item.v], item)
          ELSE mergeAssignmentsLoop(assignments, i + 1,
                 Append(newAssignments, current), item, item)

mergeAssignments(assignments) ==
  mergeAssignmentsLoop(assignments, 2, <<>>, assignments[1], assignments[1])

RECURSIVE JoinWithComma(_)
JoinWithComma(merged) ==
  IF merged = <<>> THEN <<>>
  ELSE getAssignmentExpression(Head(merged)) \o <<",">> \o JoinWithComma(Tail(merged))

\* The text of the patches, each followed by a comma; <<>> is `undefined`.
resolveAssignments(assignments) ==
  IF Len(assignments) > 0 THEN JoinWithComma(mergeAssignments(assignments))
  ELSE <<>>

resolvePatches(ctx) == resolveAssignments(ctx.assignments)

createAssignment(ctx, src, value) ==
  [ctx EXCEPT !.assignments =
     Append(@, [t |-> "index", s |-> src, k |-> <<>>, v |-> value])]

emitMarkRef(ctx, id) == [ctx EXCEPT !.markedRefs = @ \cup {id}]

createSetAdd(ctx, ref, value) ==
  LET r == getRefParam(emitMarkRef(ctx, ref), ref)
  IN [r.ctx EXCEPT !.assignments =
        Append(@, [t |-> "set", s |-> <<r.name>>, k |-> <<>>, v |-> value])]

createMapSet(ctx, ref, key, value) ==
  LET r == getRefParam(emitMarkRef(ctx, ref), ref)
  IN [r.ctx EXCEPT !.assignments =
        Append(@, [t |-> "map", s |-> <<r.name>>, k |-> key, v |-> value])]

createArrayAssign(ctx, ref, index, value) ==
  LET r == getRefParam(emitMarkRef(ctx, ref), ref)
  IN createAssignment(r.ctx, <<r.name, "[">> \o index \o <<"]">>, value)

createObjectAssign(ctx, ref, key, value) ==
  LET r == getRefParam(emitMarkRef(ctx, ref), ref)
  IN createAssignment(r.ctx, <<r.name, ".">> \o key, value)

assignRef(ctx, index, value) ==
  IF index \in ctx.markedRefs
  THEN LET r == getRefParam(ctx, index) IN Ok(r.ctx, <<r.name, "=">> \o value)
  ELSE Ok(ctx, value)

isReferenceInStack(ctx, node) ==
  /\ node.t = "Reference"
  /\ \E k \in 1..Len(ctx.stack) : ctx.stack[k] = node.i

(***************************************************************************)
(* Object keys: Number(key) and IDENTIFIER_CHECK.                          *)
(***************************************************************************)
Digits == {"0", "1", "2", "3", "4", "5", "6", "7", "8", "9"}
HexDigits == Digits \cup {"a", "b", "c", "d", "e", "f", "A", "B", "C", "D", "E", "F"}
Letters ==
  {"a", "b", "c", "d", "e", "f", "g", "h", "i", "j", "k", "l", "m", "n", "o",
   "p", "q", "r", "s", "t", "u", "v", "w", "x", "y", "z",
   "A", "B", "C", "D", "E", "F", "G", "H", "I", "J", "K", "L", "M", "N", "O",
   "P", "Q", "R", "S", "T", "U", "V", "W", "X", "Y", "Z"}
WhiteSpace == {" ", "TAB", "LF", "CR", "FF", "U2028", "U2029"}

AllIn(s, S) == \A k \in 1..Len(s) : s[k] \in S

\* /^([$A-Z_][0-9A-Z_$]*)$/i
IDENTIFIER_CHECK(key) ==
  /\ Len(key) >= 1
  /\ key[1] \in Letters \cup {"$", "_"}
  /\ AllIn(key, Letters \cup Digits \cup {"$", "_"})

RECURSIVE TrimLeft(_)
TrimLeft(s) == IF s # <<>> /\ Head(s) \in WhiteSpace THEN TrimLeft(Tail(s)) ELSE s
RECURSIVE TrimRight(_)
TrimRight(s) ==
  IF s # <<>> /\ s[Len(s)] \in WhiteSpace THEN TrimRight(SubSeq(s, 1, Len(s) - 1))
  ELSE s

IsExponent(exponent) ==
  \/ exponent = <<>>
  \/ /\ Len(exponent) >= 2
     /\ exponent[1] \in {"e", "E"}
     /\ IF exponent[2] \in {"+", "-"}
        THEN Len(exponent) >= 3 /\ AllIn(SubSeq(exponent, 3, Len(exponent)), Digits)
        ELSE AllIn(Tail(exponent), Digits)

IsMantissa(whole, frac) ==
  /\ AllIn(whole, Digits)
  /\ \/ frac = <<>> /\ whole # <<>>
     \/ /\ frac # <<>>
        /\ frac[1] = "."
        /\ AllIn(Tail(frac), Digits)
        /\ (whole # <<>> \/ Len(frac) >= 2)

\* digits [. digits] | . digits, each with an optional exponent
IsUnsignedDecimal(s) ==
  \E d \in 1..(Len(s) + 1) : \E e \in d..(Len(s) + 1) :
    /\ IsMantissa(SubSeq(s, 1, d - 1), SubSeq(s, d, e - 1))
    /\ IsExponent(SubSeq(s, e, Len(s)))

IsRadixLiteral(s) ==
  /\ Len(s) >= 3
  /\ s[1] = "0"
  /\ \/ s[2] \in {"x", "X"} /\ AllIn(SubSeq(s, 3, Len(s)), HexDigits)
     \/ s[2] \in {"o", "O"} /\ AllIn(SubSeq(s, 3, Len(s)), {"0", "1", "2", "3", "4", "5", "6", "7"})
     \/ s[2] \in {"b", "B"} /\ AllIn(SubSeq(s, 3, Len(s)), {"0", "1"})

InfinityText == <<"I", "n", "f", "i", "n", "i", "t", "y">>

\* The digits before the exponent are all zero.
MantissaIsZero(body) ==
  \A k \in 1..Len(body) :
    (\A j \in 1..k : body[j] \notin {"e", "E"}) => body[k] \in {"0", "."}

NumberOfSigned(negative, body) ==
  IF body = InfinityText THEN (IF negative THEN "negative" ELSE "nonnegative")
  ELSE IF IsUnsignedDecimal(body)
  THEN (IF negative /\ ~MantissaIsZero(body) THEN "negative" ELSE "nonnegative")
  ELSE "NaN"

NumberOfTrimmed(s) ==
  IF s = <<>> THEN "nonnegative"
  ELSE IF s[1] \in {"+", "-"} THEN NumberOfSigned(s[1] = "-", Tail(s))
  ELSE IF IsRadixLiteral(s) THEN "nonnegative"
  ELSE NumberOfSigned(FALSE, s)

\* Number(key) for a text: "NaN", "negative" or "nonnegative" (-0 >= 0).
NumberOf(key) == NumberOfTrimmed(TrimRight(TrimLeft(key)))

\* A key of a record is a string, [t |-> "text", s |-> its code points],
\* or a node (the well-known symbol); String(key) of a node.
KeyText(key) == IF key.t = "text" THEN key.s ELSE <<"[object Object]">>

(***************************************************************************)
(* tree/serialize.ts: SerovalSerializer.  Every method returns the text    *)
(* and the context it leaves behind, or the exception it throws; reading   *)
(* a slot of `undefined` or `null` is a TypeError.                         *)
(***************************************************************************)
RECURSIVE serialize(_, _)
RECURSIVE serializeNodeListLoop(_, _, _, _, _)
RECURSIVE serializeObjectLoop(_, _, _, _, _, _)
RECURSIVE serializeAssignmentsLoop(_, _, _, _, _)
RECURSIVE serializeSetLoop(_, _, _, _, _)
RECURSIVE serializeMapLoop(_, _, _, _, _)

push(ctx, id) == [ctx EXCEPT !.stack = Append(@, id)]
pop(ctx) == [ctx EXCEPT !.stack = SubSeq(@, 1, Len(@) - 1)]

\* assignRef on the text a method returned, unless it threw.
assignRefTo(r, index) == IF r.ok THEN assignRef(r.ctx, index, r.out) ELSE r

\* A mutant: the id that was pushed is left on the stack.
poppedNever(r) == r

\* ctx.stack.pop() after a method returned.
popped(r) == IF r.ok THEN [r EXCEPT !.ctx = pop(@)] ELSE r

\* A slot that holds a record (node.d) rather than `undefined`.
HasRecord(node, slot) == slot \in DOMAIN node /\ "t" \notin DOMAIN node[slot]

serializeNodeListLoop(ctx, node, i, values, isHoley) ==
  IF i >= Len(node.a)
  THEN Ok(ctx, <<"[">> \o values \o (IF isHoley THEN <<",">> ELSE <<>>) \o <<"]">>)
  ELSE LET sep == IF i # 0 THEN values \o <<",">> ELSE values
           item == node.a[i + 1]
       IN IF Truthy(item)
          THEN IF isReferenceInStack(ctx, item)
               THEN LET r == getRefParam(ctx, item.i)
                    IN serializeNodeListLoop(
                         createArrayAssign(r.ctx, node.i, <<ToString(i)>>, <<r.name>>),
                         node, i + 1, sep, TRUE)
               ELSE LET r == serialize(ctx, item)
                    IN IF ~r.ok THEN r
                       ELSE serializeNodeListLoop(r.ctx, node, i + 1, sep \o r.out, FALSE)
          ELSE serializeNodeListLoop(ctx, node, i + 1, sep, TRUE)

serializeNodeList(ctx, node) ==
  IF "a" \notin DOMAIN node THEN Fail(ctx, "TypeError")
  ELSE serializeNodeListLoop(ctx, node, 0, <<>>, FALSE)

serializeArray(ctx, node) ==
  assignRefTo(popped(serializeNodeList(push(ctx, node.i), node)), node.i)

\* isIdentifier = check >= 0 || IDENTIFIER_CHECK.test(key)
isIdentifier(key, check) == check = "nonnegative" \/ IDENTIFIER_CHECK(key)

\* isIdentifier ? key : quote(key)
keyOrQuoteOf(key, check) == IF isIdentifier(key, check) THEN key ELSE quote(key)
keyOrQuote(key) == keyOrQuoteOf(KeyText(key), NumberOf(KeyText(key)))

\* The two branches that patch sourceID[key] = value after the fact.
assignKeyOf(ctx, sourceID, key, check, value) ==
  IF isIdentifier(key, check) /\ check = "NaN"
  THEN createObjectAssign(ctx, sourceID, key, value)
  ELSE createArrayAssign(ctx, sourceID, keyOrQuoteOf(key, check), value)

assignKey(ctx, sourceID, key, value) ==
  assignKeyOf(ctx, sourceID, KeyText(key), NumberOf(KeyText(key)), value)

serializeObjectLoop(ctx, sourceID, node, i, result, hasPrev) ==
  IF i >= node.s THEN Ok(pop(ctx), <<"{">> \o result \o <<"}">>)
  ELSE LET key == node.k[i + 1]
           val == node.v[i + 1]
       IN IF ~Truthy(val) THEN Fail(ctx, "TypeError")
          ELSE IF isReferenceInStack(ctx, val)
          THEN LET r == getRefParam(ctx, val.i)
               IN serializeObjectLoop(assignKey(r.ctx, sourceID, key, <<r.name>>),
                                      sourceID, node, i + 1, result, hasPrev)
          ELSE LET r == serialize(ctx, val)
               IN IF ~r.ok THEN r
                  ELSE serializeObjectLoop(r.ctx, sourceID, node, i + 1,
                         result \o (IF hasPrev THEN <<",">> ELSE <<>>)
                                \o keyOrQuote(key) \o <<":">> \o r.out,
                         TRUE)

serializeObject(ctx, sourceID, node) ==
  IF node.s = 0 THEN Ok(ctx, <<"{", "}">>)
  ELSE serializeObjectLoop(push(ctx, sourceID), sourceID, node, 0, <<>>, FALSE)

objectAssign(fields, serialized) ==
  IF ~fields.ok THEN fields
  ELSE IF fields.out # <<"{", "}">>
  THEN Ok(fields.ctx, <<"Object.assign(">> \o serialized \o <<",">>
                        \o fields.out \o <<")">>)
  ELSE Ok(fields.ctx, serialized)

serializeWithObjectAssign(ctx, value, id, serialized) ==
  objectAssign(serializeObject(ctx, id, value), serialized)

\* The body of serializeAssignments' loop after the value is serialized:
\* the assignment goes to mainAssignments, ctx.assignments is put back.
assignMain(r, parentStack, sourceID, key, mainAssignments) ==
  assignKey([r.ctx EXCEPT !.stack = parentStack, !.assignments = mainAssignments],
            sourceID, key, r.out)

serializeAssignmentsLoop(ctx, sourceID, node, i, mainAssignments) ==
  IF i >= node.s THEN Ok(pop(ctx), resolveAssignments(mainAssignments))
  ELSE LET r == serialize([ctx EXCEPT !.stack = <<>>], node.v[i + 1])
           assigned == assignMain(r, ctx.stack, sourceID, node.k[i + 1],
                                  mainAssignments)
       IN IF ~r.ok THEN r
          ELSE serializeAssignmentsLoop(
                 [assigned EXCEPT !.assignments = r.ctx.assignments],
                 sourceID, node, i + 1, assigned.assignments)

serializeAssignments(ctx, sourceID, node) ==
  serializeAssignmentsLoop(push(ctx, sourceID), sourceID, node, 0, <<>>)

\* `(${assignRef(ctx, node.i, serialized)},${assignments}${ref})`
withAssignments(ref, index, serialized, assignments) ==
  Ok(assignRef(ref.ctx, index, serialized).ctx,
     <<"(">> \o assignRef(ref.ctx, index, serialized).out \o <<",">>
       \o assignments \o <<ref.name, ")">>)

afterAssignments(assignments, index, serialized) ==
  IF ~assignments.ok THEN assignments
  ELSE IF assignments.out # <<>>
  THEN withAssignments(getRefParam(assignments.ctx, index), index, serialized,
                       assignments.out)
  ELSE assignRef(assignments.ctx, index, serialized)

\* The tail NullConstructor, AggregateError, Error and Iterable share: the
\* properties of node.d are added with Object.assign or with assignments.
serializeProperties(ctx, node, serialized) ==
  IF HasFeature(ctx, "ObjectAssign")
  THEN assignRefTo(serializeWithObjectAssign(ctx, node.d, node.i, serialized), node.i)
  ELSE afterAssignments(serializeAssignments(emitMarkRef(ctx, node.i), node.i, node.d),
                        node.i, serialized)

serializeNullConstructor(ctx, node) ==
  serializeProperties(ctx, node, <<"Object.create(null)">>)

serializeSetLoop(ctx, node, i, result, hasPrev) ==
  IF i >= Len(node.a)
  THEN assignRef(pop(ctx), node.i,
                 IF result # <<>> THEN <<"new Set", "([">> \o result \o <<"])">>
                 ELSE <<"new Set">>)
  ELSE LET item == node.a[i + 1]
       IN IF ~Truthy(item) THEN Fail(ctx, "TypeError")
          ELSE IF isReferenceInStack(ctx, item)
          THEN LET r == getRefParam(ctx, item.i)
               IN serializeSetLoop(createSetAdd(r.ctx, node.i, <<r.name>>),
                                   node, i + 1, result, hasPrev)
          ELSE LET r == serialize(ctx, item)
               IN IF ~r.ok THEN r
                  ELSE serializeSetLoop(r.ctx, node, i + 1,
                         result \o (IF hasPrev THEN <<",">> ELSE <<>>) \o r.out, TRUE)

serializeSet(ctx, node) ==
  IF "a" \notin DOMAIN node THEN Fail(ctx, "TypeError")
  ELSE IF Len(node.a) = 0 THEN assignRef(ctx, node.i, <<"new Set">>)
  ELSE serializeSetLoop(push(ctx, node.i), node, 0, <<>>, FALSE)

serializeMapLoop(ctx, node, i, result, hasPrev) ==
  IF i >= node.d.s
  THEN assignRef(pop(ctx), node.i,
                 IF result # <<>> THEN <<"new Map", "([">> \o result \o <<"])">>
                 ELSE <<"new Map">>)
  ELSE LET key == node.d.k[i + 1]
           val == node.d.v[i + 1]
           parent == ctx.stack
       IN IF ~Truthy(key) THEN Fail(ctx, "TypeError")
          ELSE IF isReferenceInStack(ctx, key)
          THEN LET keyRef == getRefParam(ctx, key.i)
               IN IF ~Truthy(val) THEN Fail(keyRef.ctx, "TypeError")
                  ELSE IF isReferenceInStack(keyRef.ctx, val)
                  THEN LET valueRef == getRefParam(keyRef.ctx, val.i)
                       IN serializeMapLoop(
                            createMapSet(valueRef.ctx, node.i, <<keyRef.name>>,
                                         <<valueRef.name>>),
                            node, i + 1, result, hasPrev)
                  ELSE LET r == serialize([keyRef.ctx EXCEPT !.stack = <<>>], val)
                       IN IF ~r.ok THEN r
                          ELSE serializeMapLoop(
                                 [createMapSet(r.ctx, node.i, <<keyRef.name>>, r.out)
                                    EXCEPT !.stack = parent],
                                 node, i + 1, result, hasPrev)
          ELSE IF ~Truthy(val) THEN Fail(ctx, "TypeError")
          ELSE IF isReferenceInStack(ctx, val)
          THEN LET valueRef == getRefParam(ctx, val.i)
                   r == serialize([valueRef.ctx EXCEPT !.stack = <<>>], key)
               IN IF ~r.ok THEN r
                  ELSE serializeMapLoop(
                         [createMapSet(r.ctx, node.i, r.out, <<valueRef.name>>)
                            EXCEPT !.stack = parent],
                         node, i + 1, result, hasPrev)
          ELSE LET rk == serialize(ctx, key)
               IN IF ~rk.ok THEN rk
                  ELSE LET rv == serialize(rk.ctx, val)
                       IN IF ~rv.ok THEN rv
                          ELSE serializeMapLoop(rv.ctx, node, i + 1,
                                 result \o (IF hasPrev THEN <<",">> ELSE <<>>)
                                        \o <<"[">> \o rk.out \o <<",">> \o rv.out
                                        \o <<"]">>,
                                 TRUE)

serializeMap(ctx, node) ==
  IF ~HasRecord(node, "d") THEN Fail(ctx, "TypeError")
  ELSE IF node.d.s = 0 THEN assignRef(ctx, node.i, <<"new Map">>)
  ELSE serializeMapLoop(push(ctx, node.i), node, 0, <<>>, FALSE)

serializeAggregateError(ctx, node) ==
  LET r == serialize(push(ctx, node.i), Get(node, "n"))
  IN IF ~r.ok THEN r
     ELSE LET serialized == <<"new AggregateError(">> \o r.out \o <<",">>
                              \o quote(node.m) \o <<")">>
          IN IF HasRecord(node, "d") THEN serializeProperties(pop(r.ctx), node, serialized)
             ELSE assignRef(pop(r.ctx), node.i, serialized)

serializeError(ctx, node) ==
  LET serialized == <<"new ", node.c, "(">> \o quote(node.m) \o <<")">>
  IN IF HasRecord(node, "d") THEN serializeProperties(ctx, node, serialized)
     ELSE assignRef(ctx, node.i, serialized)

serializePromise(ctx, node) ==
  LET n == Get(node, "n")
  IN IF ~Truthy(n) THEN Fail(ctx, "TypeError")
     ELSE IF isReferenceInStack(ctx, n)
     THEN LET r == getRefParam(ctx, n.i)
          IN assignRef(r.ctx, node.i, <<"Promise.resolve().then(()=>", r.name, ")">>)
     ELSE LET r == serialize(push(ctx, node.i), n)
          IN IF ~r.ok THEN r
             ELSE assignRef(pop(r.ctx), node.i,
                            <<"Promise.resolve(">> \o r.out \o <<")">>)

serializeTypedArray(ctx, node) ==
  assignRef(ctx, node.i,
            <<"new ", node.c, "(", "[">> \o node.s \o <<"]">>
              \o (IF node.l # 0 THEN <<",", ToString(node.l)>> ELSE <<>>) \o <<")">>)

iterableText(ctx, values) ==
  IF HasFeature(ctx, "ArrowFunction")
  THEN <<"{[Symbol.iterator]:()=>">> \o values \o <<"}">>
  ELSE IF HasFeature(ctx, "MethodShorthand")
  THEN <<"{[Symbol.iterator](){return ">> \o values \o <<"}}">>
  ELSE <<"{[Symbol.iterator]:function(){return ">> \o values \o <<"}}">>

iterableOf(ctx, node, values) ==
  IF HasRecord(node, "d")
  THEN serializeProperties(ctx, node, iterableText(ctx, values))
  ELSE assignRef(ctx, node.i, iterableText(ctx, values))

iterableAfter(values, parent, node) ==
  IF ~values.ok THEN values
  ELSE iterableOf([values.ctx EXCEPT !.stack = parent], node,
                  values.out \o (IF HasFeature(values.ctx, "ArrayPrototypeValues")
                                 THEN <<".values()">> ELSE <<"[Symbol.iterator]()">>))

serializeIterable(ctx, node) ==
  iterableAfter(serializeNodeList([ctx EXCEPT !.stack = <<>>], node), ctx.stack, node)

serialize(ctx, node) ==
  IF ~Truthy(node) THEN Fail(ctx, "TypeError")
  ELSE CASE node.t = "Primitive" ->
              Ok(ctx, IF "s" \in DOMAIN node THEN node.s ELSE <<"undefined">>)
         [] node.t = "BigInt" -> Ok(ctx, node.s)
         [] node.t = "Reference" ->
              LET r == getRefParam(ctx, node.i) IN Ok(r.ctx, <<r.name>>)
         [] node.t = "Array" -> serializeArray(ctx, node)
         [] node.t = "Object" ->
              IF ~HasRecord(node, "d") THEN Fail(ctx, "TypeError")
              ELSE assignRefTo(serializeObject(ctx, node.i, node.d), node.i)
         [] node.t = "NullConstructor" ->
              IF ~HasRecord(node, "d") THEN Fail(ctx, "TypeError")
              ELSE serializeNullConstructor(ctx, node)
         [] node.t = "Date" ->
              assignRef(ctx, node.i, <<"new Date(", "QUOTE">> \o node.s \o <<"QUOTE", ")">>)
         [] node.t = "RegExp" -> assignRef(ctx, node.i, node.s)
         [] node.t = "Set" -> serializeSet(ctx, node)
         [] node.t = "Map" -> serializeMap(ctx, node)
         [] node.t \in {"BigIntTypedArray", "TypedArray"} -> serializeTypedArray(ctx, node)
         [] node.t = "AggregateError" -> serializeAggregateError(ctx, node)
         [] node.t = "Error" -> serializeError(ctx, node)
         [] node.t = "Iterable" -> serializeIterable(ctx, node)
         [] node.t = "Promise" -> serializePromise(ctx, node)
         [] OTHER -> Fail(ctx, "Unsupported type")

(***************************************************************************)
(* index.ts: finalize and the JSON envelope.                               *)
(***************************************************************************)
RECURSIVE join(_)
join(names) ==
  IF Len(names) <= 1 THEN names
  ELSE <<Head(names), ",">> \o join(Tail(names))

startsWith(text, prefix) ==
  Len(text) >= Len(prefix) /\ SubSeq(text, 1, Len(prefix)) = prefix

wrap(ctx, params, body) ==
  IF HasFeature(ctx, "ArrowFunction")
  THEN <<"(">> \o (IF Len(ctx.vars) > 1 THEN <<"(">> \o params \o <<")">>
                   ELSE params)
         \o <<"=>(">> \o body \o <<"))()">>
  ELSE <<"(function(">> \o params \o <<"){return ">> \o body \o <<"})()">>

\* A mutant: the body is joined as it is, `index=` is never put in front.
patchedAsIs(index, result, patches) ==
  wrap(index.ctx, join(index.ctx.vars),
       result \o <<",">> \o patches \o <<index.name>>)

\* The body when there are patches: index is the root's variable.
patched(index, result, patches) ==
  wrap(index.ctx, join(index.ctx.vars),
       IF startsWith(result, <<index.name, "=">>)
       THEN result \o <<",">> \o patches \o <<index.name>>
       ELSE <<index.name, "=">> \o result \o <<",">> \o patches \o <<index.name>>)

\* A mutant: the parameter list is made before the root's variable is asked for.
finalizeWithStaleParams(ctx, rootID, result, patches) ==
  IF patches # <<>>
  THEN patched([ctx |-> ctx, name |-> getRefParam(ctx, rootID).name], result, patches)
  ELSE wrap(ctx, join(ctx.vars), result)

finalizeWith(ctx, rootID, result, patches) ==
  IF patches # <<>> THEN patched(getRefParam(ctx, rootID), result, patches)
  ELSE wrap(ctx, join(ctx.vars), result)

finalize(ctx, rootID, isObject, result) ==
  IF Len(ctx.vars) > 0 THEN finalizeWith(ctx, rootID, result, resolvePatches(ctx))
  ELSE IF isObject THEN <<"(">> \o result \o <<")">>
  ELSE result

\* JSON.stringify of the IR: a slot that holds `undefined` is left out, an
\* `undefined` or absent element of an array is written as null.  The
\* document stands for its text; JSON.parse reads the same document back.
RECURSIVE JSONNode(_)
RECURSIVE JSONList(_)
JSONList(list) ==
  [k \in 1..Len(list) |-> IF Truthy(list[k]) THEN JSONNode(list[k]) ELSE NULL]

JSONNode(node) ==
  [slot \in {x \in DOMAIN node :
               ~(x \in {"d", "f", "n"} /\ "t" \in DOMAIN node[x]
                   /\ node[x].t = "undefined")} |->
     CASE slot = "a" -> JSONList(node.a)
       [] slot = "d" -> [k |-> JSONList(node.d.k), v |-> JSONList(node.d.v),
                         s |-> node.d.s]
       [] slot \in {"f", "n"} -> JSONNode(node[slot])
       [] OTHER -> node[slot]]

\* Array.from(set): the members in a sequence.
RECURSIVE ArrayFrom(_)
ArrayFrom(set) ==
  IF set = {} THEN <<>>
  ELSE LET least == CHOOSE x \in set : \A y \in set : x <= y
       IN <<least>> \o ArrayFrom(set \ {least})

\* new Set(array)
NewSet(array) == {array[k] : k \in 1..Len(array)}

\* parseAsync's return value.
parseAsyncResult(ctx, current, result) ==
  [tree |-> result, rootID |-> getRootID(ctx, current),
   isObject |-> result.t = "Object"]

\* What a call settles with: a value, or the exception that was thrown.
Resolved(value) == [status |-> "resolved", value |-> value]
Rejected(error) == [status |-> "rejected", error |-> error]

\* return finalize(serial, rootID, isObject, result), unless serialize threw.
finalized(result, rootID, isObject) ==
  IF result.ok THEN Resolved(finalize(result.ctx, rootID, isObject, result.out))
  ELSE Rejected(result.error)

\* serializeAsync after `await parseAsync(ctx, source)`.
serializeAsyncTail(ctx, parsed) ==
  finalized(serialize(createSerializationContext(ctx), parsed.tree),
            parsed.rootID, parsed.isObject)

\* A mutant: the envelope carries the full feature mask, not the parse's.
toJSONAsyncTailAllFeatures(ctx, parsed) ==
  Resolved([t |-> JSONNode(parsed.tree), r |-> parsed.rootID, i |-> parsed.isObject,
            f |-> ALL_ENABLED, m |-> ArrayFrom(ctx.markedRefs)])

\* toJSONAsync after `await parseAsync(ctx, source)`.
toJSONAsyncTail(ctx, parsed) ==
  Resolved([t |-> JSONNode(parsed.tree), r |-> parsed.rootID, i |-> parsed.isObject,
            f |-> ctx.features, m |-> ArrayFrom(ctx.markedRefs)])

compileJSON(parsed) ==
  finalized(serialize(createSerializationContext([features |-> parsed.f,
                                                  markedRefs |-> NewSet(parsed.m)]),
                      parsed.t),
            parsed.r, parsed.i)

(***************************************************************************)
(* The inputs of the entry points: the graphs of at most MaxObjs objects   *)
(* and MaxEdges kids in all, every object reachable from the root (the     *)
(* object 1), numbered in the order a breadth-first walk meets them (each  *)
(* graph once, not once per numbering), at most MaxSpecial of them of a    *)
(* kind other than the six plain containers; and the named scenarios.      *)
(***************************************************************************)
RECURSIVE SeqsUpTo(_, _)
SeqsUpTo(S, n) ==
  IF n = 0 THEN {<<>>}
  ELSE LET shorter == SeqsUpTo(S, n - 1)
       IN shorter \cup {Append(s, x) : s \in shorter, x \in S}

IsInjective(s) == \A j, k \in 1..Len(s) : j # k => s[j] # s[k]

Vals == {0} \cup Addrs

Obj(kind, kids, vals) == [kind |-> kind, kids |-> kids, vals |-> vals]

Shapes ==
  {Obj("Array", ks, <<>>) : ks \in SeqsUpTo(Vals \cup {0 - 1}, MaxKids)}
  \cup {Obj("Set", ks, <<>>) : ks \in {s \in SeqsUpTo(Vals, MaxKids) : IsInjective(s)}}
  \cup {Obj(k, ks, <<>>) : k \in RecordKinds \ {"Headers", "FormData"},
                           ks \in SeqsUpTo(Vals, MaxKids)}
  \cup {Obj(k, ks, <<>>) : k \in {"Headers", "FormData"}, ks \in SeqsUpTo({0}, MaxKids)}
  \cup {Obj(k, ks, <<>>) : k \in PromiseKinds, ks \in SeqsUpTo(Vals, 1)}
  \cup {Obj(k, <<>>, <<>>) : k \in LeafKinds}
  \cup UNION {{Obj("Map", ks, vs) : vs \in {s \in SeqsUpTo(Vals, MaxKids) : Len(s) = Len(ks)}}
              : ks \in {s \in SeqsUpTo(Vals, MaxKids) : IsInjective(s)}}
  \cup {Obj("Iterable", ks, vs) : ks \in SeqsUpTo(Vals, MaxKids),
                                  vs \in SeqsUpTo(Vals, MaxKids)}

CoreKinds == {"Array", "Object", "Set", "Map", "Promise", "Iterable"}

Edges(o) == Len(o.kids) + Len(o.vals)
Special(o) == IF o.kind \in CoreKinds THEN 0 ELSE 1

\* The addresses an object mentions appear in breadth-first order: a new
\* address is the successor of the largest one seen so far.
RECURSIVE InOrder(_, _)
InOrder(listing, seen) ==
  IF listing = <<>> THEN TRUE
  ELSE IF Head(listing) <= seen THEN InOrder(Tail(listing), seen)
  ELSE Head(listing) = seen + 1 /\ InOrder(Tail(listing), seen + 1)

RECURSIVE MaxOf(_, _)
MaxOf(listing, m) ==
  IF listing = <<>> THEN m
  ELSE MaxOf(Tail(listing), IF Head(listing) > m THEN Head(listing) ELSE m)

RECURSIVE HeapsFrom(_, _, _, _)
HeapsFrom(h, seen, edges, special) ==
  IF Len(h) = seen THEN {h}
  ELSE UNION {HeapsFrom(Append(h, o), MaxOf(o.kids \o o.vals, seen),
                        edges - Edges(o), special - Special(o))
              : o \in {s \in Shapes : /\ Edges(s) <= edges
                                      /\ Special(s) <= special
                                      /\ InOrder(s.kids \o s.vals, seen)}}

\* Scenarios of the documentation and of the tests, and cases beyond MaxEdges.
ScenarioHeaps ==
  { \* a Map with an eager entry after a deferred one (iterable key)
    <<Obj("Map", <<2, 3>>, <<0, 0>>), Obj("Iterable", <<>>, <<>>),
      Obj("Object", <<>>, <<>>)>>,
    \* a Map with an eager entry after a deferred one (iterable value)
    <<Obj("Map", <<0, 3>>, <<2, 0>>), Obj("Iterable", <<>>, <<0>>),
      Obj("Array", <<>>, <<>>)>>,
    \* an Array, a Set and an Object with an eager child after a deferred one
    <<Obj("Array", <<2, 3>>, <<>>), Obj("Iterable", <<>>, <<0>>),
      Obj("Object", <<>>, <<>>)>>,
    <<Obj("Set", <<2, 3>>, <<>>), Obj("Iterable", <<>>, <<>>),
      Obj("Object", <<>>, <<>>)>>,
    <<Obj("Object", <<2, 3>>, <<>>), Obj("Iterable", <<>>, <<>>),
      Obj("Array", <<>>, <<>>)>>,
    \* a promise that rejects, after a sibling and below the root's child
    <<Obj("Array", <<2, 3>>, <<>>), Obj("Object", <<>>, <<>>),
      Obj("Promise", <<>>, <<>>)>>,
    <<Obj("Array", <<2>>, <<>>), Obj("Object", <<0, 3>>, <<>>),
      Obj("Promise", <<>>, <<>>)>>,
    \* serializeAsync(Promise.resolve(new File(...)))
    <<Obj("Promise", <<2>>, <<>>), Obj("File", <<>>, <<>>)>> }

\* The graphs with at most `edges` kids in all and `special` objects of the
\* other kinds, and the scenarios.
Heaps(edges, special) == HeapsFrom(<<>>, 1, edges, special) \cup ScenarioHeaps

\* The flags some code reads while it handles an object of this kind.
FlagsOf(kind) ==
  CASE kind = "Map" -> {"Map"}
    [] kind = "Set" -> {"Set"}
    [] kind \in PromiseKinds -> {"Promise"}
    [] kind \in {"URL", "URLSearchParams", "Blob", "File", "Headers", "FormData"} ->
         {"WebAPI"}
    [] kind \in {"AggregateError", "AggregateErrorSubclass"} ->
         {"AggregateError", "ObjectAssign", "ArrowFunction"}
    [] kind \in {"Error", "NullProto"} -> {"ObjectAssign", "ArrowFunction"}
    [] kind = "Iterable" -> {"Symbol"}
    [] OTHER -> {}

\* options.disabledFeatures: at most MaxDisabled flags, each one a flag that
\* is read for this input (disabling a flag nothing reads changes nothing).
OptionSets(h, registered) ==
  LET read == UNION {FlagsOf(h[a].kind) : a \in 1..Len(h)}
                \cup (IF registered = {} THEN {} ELSE {"ArrowFunction"})
  IN {d \in SUBSET read : Cardinality(d) <= MaxDisabled}

\* The registry before the call: at most MaxRegistered objects of the
\* graph are registered, each under its own key.  A registered object is
\* never decomposed, so it is taken without kids.
Registries(h) ==
  {r \in SUBSET {a \in 1..Len(h) : Edges(h[a]) = 0} : Cardinality(r) <= MaxRegistered}

(***************************************************************************)
(* The string calls.                                                       *)
(***************************************************************************)
InitStr ==
  /\ str \in StringsUpTo(MaxStrLen)
  /\ ser = <<>>
  /\ deser = <<>>
  /\ pcStr = "start"
  /\ REFERENCE = EmptyMap
  /\ INV_REFERENCE = EmptyMap
  /\ heap = <<>>
  /\ source = 0
  /\ options = {}
  /\ api = "none"
  /\ call = [status |-> "idle"]
  /\ outcome = [status |-> "pending"]
  /\ compiled = [status |-> "pending"]
  /\ calls = <<>>
  /\ settled = {}
  /\ emit = [status |-> "idle"]

SerializeString ==
  /\ pcStr = "start"
  /\ ser' = serializeString(str)
  /\ pcStr' = "serialized"
  /\ UNCHANGED <<str, deser, regVars, inputVars, callVars, pairVars, emit>>

DeserializeString ==
  /\ pcStr = "serialized"
  /\ deser' = deserializeString(ser)
  /\ pcStr' = "deserialized"
  /\ UNCHANGED <<str, ser, regVars, inputVars, callVars, pairVars, emit>>

NextStr == SerializeString \/ DeserializeString

SpecStr == InitStr /\ [][NextStr]_vars

(***************************************************************************)
(* The registry calls.                                                     *)
(***************************************************************************)
InitReg ==
  /\ str = <<>>
  /\ ser = <<>>
  /\ deser = <<>>
  /\ pcStr = "idle"
  /\ REFERENCE = EmptyMap
  /\ INV_REFERENCE = EmptyMap
  /\ heap = <<>>
  /\ source = 0
  /\ options = {}
  /\ api = "none"
  /\ call = [status |-> "idle"]
  /\ outcome = [status |-> "pending"]
  /\ compiled = [status |-> "pending"]
  /\ calls = <<>>
  /\ settled = {}
  /\ emit = [status |-> "idle"]

createReference(id, value) ==
  /\ REFERENCE' = MapSet(REFERENCE, value, id)
  /\ INV_REFERENCE' = MapSet(INV_REFERENCE, id, value)
  /\ UNCHANGED <<strVars, inputVars, callVars, pairVars, emit>>

CreateReference == \E id \in Keys, value \in RegVals : createReference(id, value)

NextReg == CreateReference

SpecReg == InitReg /\ [][NextReg]_vars

(***************************************************************************)
(* The entry points of index.ts.                                           *)
(***************************************************************************)
Init ==
  /\ str = <<>>
  /\ ser = <<>>
  /\ deser = <<>>
  /\ pcStr = "idle"
  /\ heap \in Heaps(MaxEdges, MaxSpecial)
  /\ source = 1
  /\ \E r \in Registries(heap) :
       /\ REFERENCE = [a \in r |-> a]
       /\ INV_REFERENCE = [a \in r |-> a]
       /\ options \in OptionSets(heap, r)
  /\ api = "none"
  /\ call = [status |-> "idle"]
  /\ outcome = [status |-> "pending"]
  /\ compiled = [status |-> "pending"]
  /\ calls = <<>>
  /\ settled = {}
  /\ emit = [status |-> "idle"]

\* serializeAsync / toJSONAsync up to `await parseAsync(ctx, source)`.
Enter(name) ==
  /\ call.status = "idle"
  /\ api' = name
  /\ call' = parse([status |-> "running", ctx |-> createParserContext(options),
                    frames |-> <<>>, wait |-> "none", ret |-> UNDEFINED,
                    result |-> UNDEFINED, error |-> ""], source)
  /\ outcome' = IF call'.status = "rejected"
                THEN [status |-> "rejected", error |-> call'.error]
                ELSE outcome
  /\ UNCHANGED <<strVars, regVars, inputVars, compiled, pairVars, emit>>

SerializeAsync == Enter("serializeAsync")
ToJSONAsync == Enter("toJSONAsync")

Settle(next) ==
  /\ call' = next
  /\ outcome' = IF next.status = "rejected"
                THEN [status |-> "rejected", error |-> next.error]
                ELSE outcome
  /\ UNCHANGED <<strVars, regVars, inputVars, api, compiled, pairVars, emit>>

\* An `await parse(...)` resumes with the node parse returned.
ParseResume ==
  /\ call.status = "running"
  /\ call.wait = "node"
  /\ call.frames # <<>>
  /\ Settle(Resume([call EXCEPT !.frames = Pop(@)], Top(call.frames), call.ret))

\* The input promise of the innermost generatePromiseNode has settled.
PromiseThen ==
  /\ call.status = "running"
  /\ call.wait = "then"
  /\ Settle(thenCallback([call EXCEPT !.frames = Pop(@)], Top(call.frames)))

\* current.arrayBuffer() of the innermost createBlobNode / createFileNode
\* has resolved.
BufferRead ==
  /\ call.status = "running"
  /\ call.wait = "buffer"
  /\ Settle(bufferRead([call EXCEPT !.frames = Pop(@)], Top(call.frames)))

\* parseAsync returns [result, rootID, isObject].
ParseAsyncReturn ==
  /\ call.status = "running"
  /\ call.wait = "node"
  /\ call.frames = <<>>
  /\ call' = [call EXCEPT !.status = "parsed", !.wait = "none",
                          !.result = parseAsyncResult(call.ctx, source, call.ret)]
  /\ UNCHANGED <<strVars, regVars, inputVars, api, outcome, compiled, pairVars, emit>>

\* serializeAsync goes on after its await: it emits, finalizes and settles.
SerializeAsyncReturn ==
  /\ api = "serializeAsync"
  /\ call.status = "parsed"
  /\ call' = [call EXCEPT !.status = "done"]
  /\ outcome' = serializeAsyncTail(call.ctx, call.result)
  /\ UNCHANGED <<strVars, regVars, inputVars, api, compiled, pairVars, emit>>

\* toJSONAsync goes on after its await: it settles with the envelope.
ToJSONAsyncReturn ==
  /\ api = "toJSONAsync"
  /\ call.status = "parsed"
  /\ call' = [call EXCEPT !.status = "done"]
  /\ outcome' = toJSONAsyncTail(call.ctx, call.result)
  /\ UNCHANGED <<strVars, regVars, inputVars, api, compiled, pairVars, emit>>

\* compileJSON on the envelope toJSONAsync resolved with.
CompileJSON ==
  /\ api = "toJSONAsync"
  /\ outcome.status = "resolved"
  /\ compiled.status = "pending"
  /\ compiled' = compileJSON(outcome.value)
  /\ UNCHANGED <<strVars, regVars, inputVars, api, call, outcome, pairVars, emit>>

Next ==
  \/ SerializeAsync
  \/ ToJSONAsync
  \/ ParseResume
  \/ PromiseThen
  \/ BufferRead
  \/ ParseAsyncReturn
  \/ SerializeAsyncReturn
  \/ ToJSONAsyncReturn
  \/ CompileJSON

Spec == Init /\ [][Next]_vars

(***************************************************************************)
(* Two calls of serializeAsync / toJSONAsync in progress at once, on       *)
(* inputs that may share objects.  A call runs from one await to the next  *)
(* without interruption; between two awaits of one call the other call may *)
(* run, and the input promises settle in any order.                        *)
(***************************************************************************)
PairEdges == 2

APIs == {"serializeAsync", "toJSONAsync"}

\* parseAsync up to its first await: `await parse(ctx, current)`.
parseAsync(ctx, current) ==
  parse([status |-> "running", ctx |-> ctx, frames |-> <<>>, wait |-> "none",
         ret |-> UNDEFINED, result |-> UNDEFINED, error |-> ""], current)

\* A mutant: the parser context is one object that the calls in progress share.
enterAsyncSharedContext(opts, current) ==
  IF \E k \in DOMAIN calls : calls[k].run.status = "running"
  THEN parseAsync((calls[CHOOSE k \in DOMAIN calls : calls[k].run.status = "running"]).run.ctx,
                  current)
  ELSE parseAsync(createParserContext(opts), current)

\* serializeAsync / toJSONAsync up to `await parseAsync(ctx, source)`: each
\* call makes its own context.
enterAsync(opts, current) == parseAsync(createParserContext(opts), current)

\* What the call settles with after `await parseAsync(ctx, source)`.
returnAsync(name, ctx, parsed) ==
  IF name = "serializeAsync" THEN serializeAsyncTail(ctx, parsed)
  ELSE toJSONAsyncTail(ctx, parsed)

\* The inputs of two calls: the graphs of arrays, objects, maps and promises
\* with at most PairEdges kids, and a promise of a File.
PairKinds == {"Array", "Object", "Map", "Promise"}

PairHeaps ==
  {h \in HeapsFrom(<<>>, 1, PairEdges, 0) : \A a \in 1..Len(h) : h[a].kind \in PairKinds}
    \cup {<<Obj("Promise", <<2>>, <<>>), Obj("File", <<>>, <<>>)>>}

InitPair ==
  /\ str = <<>>
  /\ ser = <<>>
  /\ deser = <<>>
  /\ pcStr = "idle"
  /\ heap \in PairHeaps
  /\ source = 1
  /\ \E r \in Registries(heap) :
       /\ REFERENCE = [a \in r |-> a]
       /\ INV_REFERENCE = [a \in r |-> a]
       /\ options \in OptionSets(heap, r)
  /\ api = "none"
  /\ call = [status |-> "idle"]
  /\ outcome = [status |-> "pending"]
  /\ compiled = [status |-> "pending"]
  /\ calls \in [1..2 -> {[api |-> a, source |-> s, run |-> [status |-> "idle"],
                          overlapped |-> FALSE, outcome |-> [status |-> "pending"]]
                         : a \in APIs, s \in 1..Len(heap)}]
  /\ calls[1].source <= calls[2].source
  /\ calls[1].api = "toJSONAsync" => calls[2].api = "toJSONAsync"
  /\ settled = {}
  /\ emit = [status |-> "idle"]

Running(k) == calls[k].run.status = "running"

\* The state of call k after a turn that leaves its parse in state next.
PairSettle(k, next) ==
  /\ calls' = [calls EXCEPT ![k].run = next,
                            ![k].outcome = IF next.status = "rejected"
                                           THEN Rejected(next.error) ELSE @]
  /\ UNCHANGED <<strVars, regVars, inputVars, callVars, settled, emit>>

PairEnter(k) ==
  /\ calls[k].run.status = "idle"
  /\ calls' = [calls EXCEPT
                 ![k].run = enterAsync(options, calls[k].source),
                 ![k].overlapped = \E j \in DOMAIN calls : j # k /\ Running(j),
                 ![k].outcome = IF enterAsync(options, calls[k].source).status = "rejected"
                                THEN Rejected(enterAsync(options, calls[k].source).error)
                                ELSE @]
  /\ UNCHANGED <<strVars, regVars, inputVars, callVars, settled, emit>>

PairParseResume(k) ==
  /\ Running(k)
  /\ calls[k].run.wait = "node"
  /\ calls[k].run.frames # <<>>
  /\ PairSettle(k, Resume([calls[k].run EXCEPT !.frames = Pop(@)],
                          Top(calls[k].run.frames), calls[k].run.ret))

\* An input promise settles (it resolves with its kid, or it rejects).
PromiseSettles(a) ==
  /\ calls # <<>>
  /\ heap[a].kind \in PromiseKinds
  /\ a \notin settled
  /\ settled' = settled \cup {a}
  /\ UNCHANGED <<strVars, regVars, inputVars, callVars, calls, emit>>

\* A mutant: the then-callback is not run when the promise has settled; the
\* call keeps waiting.
PairPromiseThenIdle(k) ==
  /\ Running(k)
  /\ calls[k].run.wait = "then"
  /\ Top(calls[k].run.frames).current \in settled
  /\ PairSettle(k, calls[k].run)

\* The then-callback of the promise call k waits for runs once it has settled.
PairPromiseThen(k) ==
  /\ Running(k)
  /\ calls[k].run.wait = "then"
  /\ Top(calls[k].run.frames).current \in settled
  /\ PairSettle(k, thenCallback([calls[k].run EXCEPT !.frames = Pop(@)],
                                Top(calls[k].run.frames)))

PairBufferRead(k) ==
  /\ Running(k)
  /\ calls[k].run.wait = "buffer"
  /\ PairSettle(k, bufferRead([calls[k].run EXCEPT !.frames = Pop(@)],
                              Top(calls[k].run.frames)))

PairParseAsyncReturn(k) ==
  /\ Running(k)
  /\ calls[k].run.wait = "node"
  /\ calls[k].run.frames = <<>>
  /\ calls' = [calls EXCEPT ![k].run =
                 [@ EXCEPT !.status = "parsed", !.wait = "none",
                           !.result = parseAsyncResult(calls[k].run.ctx, calls[k].source,
                                                       calls[k].run.ret)]]
  /\ UNCHANGED <<strVars, regVars, inputVars, callVars, settled, emit>>

PairReturn(k) ==
  /\ calls[k].run.status = "parsed"
  /\ calls' = [calls EXCEPT ![k].run = [@ EXCEPT !.status = "done"],
                            ![k].outcome = returnAsync(calls[k].api, calls[k].run.ctx,
                                                       calls[k].run.result)]
  /\ UNCHANGED <<strVars, regVars, inputVars, callVars, settled, emit>>

NextPair ==
  \/ \E k \in DOMAIN calls : PairEnter(k)
  \/ \E k \in DOMAIN calls : PairParseResume(k)
  \/ \E a \in 1..Len(heap) : PromiseSettles(a)
  \/ \E k \in DOMAIN calls : PairPromiseThen(k)
  \/ \E k \in DOMAIN calls : PairBufferRead(k)
  \/ \E k \in DOMAIN calls : PairParseAsyncReturn(k)
  \/ \E k \in DOMAIN calls : PairReturn(k)

SpecPair == InitPair /\ [][NextPair]_vars

(***************************************************************************)
(* One call of serializeAsync / toJSONAsync that is taken to its end.  The *)
(* event loop runs every continuation that is ready (weak fairness of the  *)
(* turns of the call), and every input promise settles at some time (weak  *)
(* fairness of PromiseSettles).                                            *)
(***************************************************************************)
LiveEdges == 3

LiveKinds == {"Array", "Object", "Map", "Set", "Promise"}

\* The graphs of arrays, objects, maps, sets and promises with at most
\* LiveEdges kids; a promise of a File; and one cycle through an array, an
\* object, a map, a set and a promise.
LiveHeaps ==
  {h \in HeapsFrom(<<>>, 1, LiveEdges, 0) : \A a \in 1..Len(h) : h[a].kind \in LiveKinds}
    \cup {<<Obj("Promise", <<2>>, <<>>), Obj("File", <<>>, <<>>)>>,
          <<Obj("Array", <<2>>, <<>>), Obj("Object", <<3>>, <<>>),
            Obj("Map", <<0>>, <<4>>), Obj("Set", <<5>>, <<>>),
            Obj("Promise", <<1>>, <<>>)>>}

InitLive ==
  /\ str = <<>>
  /\ ser = <<>>
  /\ deser = <<>>
  /\ pcStr = "idle"
  /\ heap \in LiveHeaps
  /\ source = 1
  /\ REFERENCE = EmptyMap
  /\ INV_REFERENCE = EmptyMap
  /\ options = {}
  /\ api = "none"
  /\ call = [status |-> "idle"]
  /\ outcome = [status |-> "pending"]
  /\ compiled = [status |-> "pending"]
  /\ calls \in [1..1 -> {[api |-> a, source |-> 1, run |-> [status |-> "idle"],
                          overlapped |-> FALSE, outcome |-> [status |-> "pending"]]
                         : a \in APIs}]
  /\ settled = {}
  /\ emit = [status |-> "idle"]

SpecLive ==
  /\ InitLive
  /\ [][NextPair]_vars
  /\ WF_vars(\E k \in DOMAIN calls : PairParseResume(k))
  /\ WF_vars(\E a \in 1..Len(heap) : PromiseSettles(a))
  /\ WF_vars(\E k \in DOMAIN calls : PairPromiseThen(k))
  /\ WF_vars(\E k \in DOMAIN calls : PairBufferRead(k))
  /\ WF_vars(\E k \in DOMAIN calls : PairParseAsyncReturn(k))

(***************************************************************************)
(* compileJSON on an envelope whose tree is in the form the emitter of     *)
(* serialize.ts reads: a back-reference is a Reference node (its id is in  *)
(* the marked set), a promise keeps its value in slot n, an AggregateError *)
(* its errors in slot n, an Iterable its items in slot a.  The trees are   *)
(* the walks of the input graphs: an id per object in the order of the     *)
(* walk, eager children before iterable ones, a back-reference and a mark  *)
(* at every later encounter.  A promise is fulfilled with a value other    *)
(* than itself.                                                            *)
(***************************************************************************)
EmitDisabled == 2   \* flags that are off in the envelope
EmitEdges == 2      \* kids of all the objects of an emitted graph together

EmitKinds == {"Array", "Object", "Set", "Map", "Promise", "Iterable",
              "NullProto", "Error", "AggregateError", "Date"}

\* The walk's state: the interned values, the marked ids, and the text of
\* the first property key of every record.
treeContext(key) == [refs |-> <<>>, markedRefs |-> {}, key |-> key]

\* The indices of the items that are visited in the first round (eager) or
\* in the second (deferred), in insertion order.
RECURSIVE pick(_, _, _, _)
pick(items, others, k, deferred) ==
  IF k > Len(items) THEN <<>>
  ELSE (IF /\ ~IsHole(items[k])
           /\ (isIterable(items[k]) \/ isIterable(others[k])) = deferred
        THEN <<k>> ELSE <<>>) \o pick(items, others, k + 1, deferred)

visitOrder(items, others) ==
  pick(items, others, 1, FALSE) \o pick(items, others, 1, TRUE)

propertyKey(st, k) == Text(serializeString(IF k = 1 THEN st.key ELSE KeyName(k)))

RECURSIVE treeOf(_, _)
RECURSIVE treeEach(_, _, _, _)
RECURSIVE treePairs(_, _, _, _, _, _)

\* The nodes of items[k] for k in order, visited in that order.
treeEach(st, items, order, nodes) ==
  IF order = <<>> THEN [st |-> st, nodes |-> nodes]
  ELSE treeEach(treeOf(st, items[Head(order)]).st, items, Tail(order),
                [nodes EXCEPT ![Head(order)] = treeOf(st, items[Head(order)]).node])

\* The key and value nodes of the entries of a Map, a key before its value.
treePairs(st, keys, values, order, keyNodes, valueNodes) ==
  IF order = <<>> THEN [st |-> st, k |-> keyNodes, v |-> valueNodes]
  ELSE treePairs(treeOf(treeOf(st, keys[Head(order)]).st, values[Head(order)]).st,
                 keys, values, Tail(order),
                 Append(keyNodes, treeOf(st, keys[Head(order)]).node),
                 Append(valueNodes,
                        treeOf(treeOf(st, keys[Head(order)]).st,
                               values[Head(order)]).node))

ordered(nodes, order) == [k \in 1..Len(order) |-> nodes[order[k]]]

\* The record of the own properties of an object: keys, values, size.
treeRecord(st, kids, r) ==
  [st |-> r.st,
   d |-> [k |-> [j \in 1..Len(kids) |-> propertyKey(st, visitOrder(kids, kids)[j])],
          v |-> ordered(r.nodes, visitOrder(kids, kids)), s |-> Len(kids)]]

treeProperties(st, kids) ==
  treeRecord(st, kids, treeEach(st, kids, visitOrder(kids, kids), NewArray(Len(kids))))

\* The node of a list: the items at their indices (Array) or in the order
\* of the visit (Set).
treeList(tag, id, kids, r) ==
  [st |-> r.st,
   node |-> [t |-> tag, i |-> id,
             a |-> IF tag = "Set" THEN ordered(r.nodes, visitOrder(kids, kids))
                   ELSE r.nodes]]

treeMap(id, r) ==
  [st |-> r.st, node |-> [t |-> "Map", i |-> id, d |-> [k |-> r.k, v |-> r.v, s |-> Len(r.k)]]]

treeWith(owner, r) == [st |-> r.st, node |-> [owner EXCEPT !.d = r.d]]

treeOptions(st, owner, kids) ==
  IF kids = <<>> THEN [st |-> st, node |-> owner]
  ELSE treeWith(owner, treeProperties(st, kids))

treePromise(id, r) == [st |-> r.st, node |-> [t |-> "Promise", i |-> id, n |-> r.node]]

\* An Iterable: the properties first, then the items it yields (a new array).
treeItems(owner, r) == [st |-> r.st, node |-> [owner EXCEPT !.a = r.node.a]]

treeIterable(id, o, r) ==
  treeItems(r.node, treeList("Array", id, o.vals,
                             treeEach(r.st, o.vals, visitOrder(o.vals, o.vals),
                                      NewArray(Len(o.vals)))))

\* An AggregateError: its errors (an empty array, a new object) are in slot n.
treeErrors(st, id) ==
  [owner |-> [t |-> "AggregateError", i |-> id, m |-> serializeString(<<"m">>),
              n |-> [t |-> "Array", i |-> Len(st.refs), a |-> <<>>], d |-> UNDEFINED],
   st |-> [st EXCEPT !.refs = Append(@, FreshObject(st))]]

treeNode(st, id, current, o) ==
  CASE o.kind \in {"Array", "Set"} ->
         treeList(o.kind, id, o.kids,
                  treeEach(st, o.kids, visitOrder(o.kids, o.kids),
                           NewArray(Len(o.kids))))
    [] o.kind = "Map" ->
         treeMap(id, treePairs(st, o.kids, o.vals, visitOrder(o.kids, o.vals),
                               <<>>, <<>>))
    [] o.kind = "Object" ->
         treeWith([t |-> "Object", i |-> id, d |-> UNDEFINED],
                  treeProperties(st, o.kids))
    [] o.kind = "NullProto" ->
         treeWith([t |-> "NullConstructor", i |-> id, d |-> UNDEFINED],
                  treeProperties(st, o.kids))
    [] o.kind = "Error" ->
         treeOptions(st, [t |-> "Error", i |-> id, c |-> getErrorConstructorName(current),
                          m |-> serializeString(<<"m">>), d |-> UNDEFINED], o.kids)
    [] o.kind = "AggregateError" ->
         treeOptions(treeErrors(st, id).st, treeErrors(st, id).owner, o.kids)
    [] o.kind = "Iterable" ->
         treeIterable(id, o, treeOptions(st, [t |-> "Iterable", i |-> id, d |-> UNDEFINED,
                                              a |-> <<>>], o.kids))
    [] o.kind = "Promise" -> treePromise(id, treeOf(st, o.kids[1]))
    [] o.kind = "Date" -> [st |-> st, node |-> createDateNode(id, current)]

treeKnown(r, current) ==
  IF r.id \in r.ctx.markedRefs
  THEN [st |-> r.ctx, node |-> [t |-> "Reference", i |-> r.id]]
  ELSE treeNode(r.ctx, r.id, current, heap[current])

treeOf(st, current) ==
  IF IsNumber(current) THEN [st |-> st, node |-> createNumberNode(current)]
  ELSE treeKnown(createIndexedValue(st, current), current)

\* JSON.stringify({t, r, i, f, m}) of the walk of the graph from object 1.
envelopeOf(r, features) ==
  [t |-> JSONNode(r.node), r |-> 0, i |-> r.node.t = "Object", f |-> features,
   m |-> ArrayFrom(r.st.markedRefs)]

\* The keys that are tried as the first property key of a record.
KeySamples ==
  {<<"a">>, <<"$">>, <<"_", "1">>, <<"a", " ", "b">>, <<"a", "-", "b">>,
   <<>>, <<" ">>, <<"0">>, <<"1">>, <<"1", "0">>, <<"0", "1">>, <<"-", "1">>,
   <<"+", "1">>, <<"1", ".", "5">>, <<"1", "e", "3">>, <<"0", "x", "1", "0">>,
   <<".", "5">>, <<"1", ".">>, <<"1", "a">>, <<"N", "a", "N">>,
   <<"I", "n", "f", "i", "n", "i", "t", "y">>}

\* Cases beyond MaxObjs.
EmitScenarios ==
  { \* two fields with equal text, and one more that differs
    <<Obj("NullProto", <<2, 3>>, <<>>), Obj("Array", <<>>, <<>>),
      Obj("Array", <<>>, <<>>)>>,
    <<Obj("NullProto", <<2, 3, 0>>, <<>>), Obj("Array", <<>>, <<>>),
      Obj("Array", <<>>, <<>>)>>,
    \* a cycle strictly below the root, through two levels
    <<Obj("Array", <<2>>, <<>>), Obj("Object", <<3>>, <<>>),
      Obj("Array", <<2, 0 - 1, 3>>, <<>>)>>,
    \* a map whose entries are lifted next to one that is not
    <<Obj("Map", <<1, 0, 2>>, <<0, 1, 3>>), Obj("Set", <<1, 2>>, <<>>),
      Obj("Object", <<>>, <<>>)>>,
    \* an array in a field of a null-prototype object that holds the
    \* array around that object
    <<Obj("Array", <<2>>, <<>>), Obj("NullProto", <<3>>, <<>>),
      Obj("Array", <<1>>, <<>>)>>,
    \* [1,,3] and [,,]
    <<Obj("Array", <<0, 0 - 1, 0>>, <<>>)>>,
    <<Obj("Array", <<0 - 1, 0 - 1>>, <<>>)>>,
    <<Obj("Array", <<2, 0 - 1, 1>>, <<>>), Obj("Array", <<1, 0 - 1>>, <<>>)>>,
    \* the promise of an ancestor, two levels up
    <<Obj("Array", <<2>>, <<>>), Obj("Object", <<3>>, <<>>),
      Obj("Promise", <<1>>, <<>>)>>,
    \* a map with itself as a key and as a value, next to an array, a set
    \* and an object that hold the map
    <<Obj("Map", <<1, 3, 4>>, <<2, 1, 0>>), Obj("Array", <<1>>, <<>>),
      Obj("Set", <<1>>, <<>>), Obj("Object", <<1>>, <<>>)>> }

EmitHeaps(edges, special) ==
  {h \in Heaps(edges, special) \cup EmitScenarios :
     \A a \in 1..Len(h) : /\ h[a].kind \in EmitKinds
                          /\ h[a].kind = "Promise" =>
                               h[a].kids # <<>> /\ h[a].kids[1] # a}

\* The flags the emitter reads for this graph.
EmitFlags(h) ==
  {"ArrowFunction"}
    \cup (IF \E a \in 1..Len(h) : h[a].kind \in {"NullProto", "Error", "AggregateError",
                                                 "Iterable"}
          THEN {"ObjectAssign"} ELSE {})
    \cup (IF \E a \in 1..Len(h) : h[a].kind = "Iterable"
          THEN {"MethodShorthand", "ArrayPrototypeValues"} ELSE {})

\* The first key varies on the graphs of one record and at most one more object.
EmitKeys(h) ==
  IF /\ Len(h) <= 2
     /\ h[1].kind \in {"Object", "NullProto"}
     /\ Len(h[1].kids) = 1
     /\ \A a \in 2..Len(h) : h[a].kids = <<>> /\ h[a].vals = <<>>
  THEN KeySamples ELSE {<<"a">>}

InitEmit ==
  /\ str = <<>>
  /\ ser = <<>>
  /\ deser = <<>>
  /\ pcStr = "idle"
  /\ REFERENCE = EmptyMap
  /\ INV_REFERENCE = EmptyMap
  /\ heap \in EmitHeaps(EmitEdges, MaxSpecial)
  /\ source = 1
  /\ options \in {d \in SUBSET EmitFlags(heap) : Cardinality(d) <= EmitDisabled}
  /\ api = "none"
  /\ call = [status |-> "idle"]
  /\ outcome = [status |-> "pending"]
  /\ compiled = [status |-> "pending"]
  /\ calls = <<>>
  /\ settled = {}
  /\ \E key \in EmitKeys(heap) :
       emit = [status |-> "idle", key |-> key,
               envelope |-> envelopeOf(treeOf(treeContext(key), source),
                                       ALL_ENABLED \ options)]

\* const serial = createSerializationContext({features: parsed.f, markedRefs: parsed.m})
serialOf(parsed) ==
  createSerializationContext([features |-> parsed.f, markedRefs |-> NewSet(parsed.m)])

\* compileJSON(source): what the emitter returned and left in its context,
\* and the text compileJSON returns (or the exception it throws).
EmitCompileJSON ==
  /\ emit.status = "idle"
  /\ emit' = [status |-> "done", key |-> emit.key, envelope |-> emit.envelope,
              result |-> serialize(serialOf(emit.envelope), emit.envelope.t),
              text |-> compileJSON(emit.envelope)]
  /\ UNCHANGED <<strVars, regVars, inputVars, callVars, pairVars>>

NextEmit == EmitCompileJSON

SpecEmit == InitEmit /\ [][NextEmit]_vars

(***************************************************************************)
(* Claims about string.ts, under SpecStr.                                  *)
(***************************************************************************)

\* C1: for every string s, deserializeString(serializeString(s)) = s.
C1_RoundTrip == pcStr = "deserialized" => deser = str

\* The concatenation, over the code points c of s, of serializeChar(c) when
\* c is one of the ten handled code points and of c itself otherwise.
RECURSIVE EscapeEach(_)
EscapeEach(s) ==
  IF s = <<>> THEN <<>>
  ELSE (IF Head(s) \in EscapedChars THEN serializeChar(Head(s)) ELSE <<Head(s)>>)
       \o EscapeEach(Tail(s))

\* The number of consecutive backslashes that end at position p of s.
RECURSIVE BackslashRun(_, _)
BackslashRun(s, p) ==
  IF p < 1 \/ s[p] # "BACKSLASH" THEN 0 ELSE 1 + BackslashRun(s, p - 1)

ScriptExample ==
  <<"LT", "s", "c", "r", "i", "p", "t", ">",
    "LT", "/", "s", "c", "r", "i", "p", "t", ">">>

ScriptEscaped ==
  <<"BACKSLASH", "x", "3", "C", "s", "c", "r", "i", "p", "t", ">",
    "BACKSLASH", "x", "3", "C", "/", "s", "c", "r", "i", "p", "t", ">">>

\* C2: serializeString(s) is the left-to-right concatenation of the
\* per-character escapes; the result holds no raw '<', no raw line
\* terminator and no double quote that is not escaped by a backslash; a
\* string with none of the ten characters is returned unchanged; and
\* '<script></script>' yields '\x3Cscript>\x3C/script>'.
C2_EscapeEach ==
  pcStr \in {"serialized", "deserialized"} =>
    /\ ser = EscapeEach(str)
    /\ \A p \in 1..Len(ser) :
         /\ ser[p] \notin {"LT", "LF", "CR", "U2028", "U2029"}
         /\ ser[p] = "QUOTE" => BackslashRun(ser, p - 1) % 2 = 1
    /\ (\A p \in 1..Len(str) : str[p] \notin EscapedChars) => ser = str
    /\ serializeString(ScriptExample) = ScriptEscaped

\* C2 witness: an escaped character followed by an ordinary one was serialized.
C2_Witness ==
  /\ pcStr = "serialized"
  /\ str = <<"LT", "a">>
  /\ ser = <<"BACKSLASH", "x", "3", "C", "a">>

(***************************************************************************)
(* Claims about tree/reference.ts, under SpecReg.                          *)
(***************************************************************************)

\* C3: the registry is write-once per key: a createReference on a bound key
\* fails, so a bound key keeps the value of its first registration.
C3_WriteOnce ==
  [][\A k \in DOMAIN INV_REFERENCE :
       /\ k \in DOMAIN INV_REFERENCE'
       /\ INV_REFERENCE'[k] = INV_REFERENCE[k]]_vars

\* C4: after any sequence of createReference calls the two tables are mutual
\* inverses.
C4_MutualInverse ==
  /\ \A v \in DOMAIN REFERENCE :
       hasReferenceID(v) =>
         /\ hasReference(getReferenceID(v))
         /\ getReference(getReferenceID(v)) = v
  /\ \A k \in DOMAIN INV_REFERENCE :
       hasReference(k) =>
         /\ hasReferenceID(getReference(k))
         /\ getReferenceID(getReference(k)) = k

(***************************************************************************)
(* The IR of a finished parse.                                             *)
(***************************************************************************)
\* The child nodes of a node, and the nodes of a tree (a node comes before
\* its children).
Children(node) ==
  (IF "a" \in DOMAIN node THEN node.a ELSE <<>>)
    \o (IF HasRecord(node, "d") THEN node.d.k \o node.d.v ELSE <<>>)
    \o (IF "f" \in DOMAIN node THEN <<node.f>> ELSE <<>>)

RECURSIVE Nodes(_)
RECURSIVE NodesOfList(_)
NodesOfList(list) ==
  IF Len(list) = 0 THEN <<>> ELSE Nodes(Head(list)) \o NodesOfList(Tail(list))
Nodes(node) == <<node>> \o NodesOfList(Children(node))

HasId(node) == "i" \in DOMAIN node
Introduces(node) == HasId(node) /\ node.t # "IndexedValue"
BackReference(node) == node.t = "IndexedValue"

Parsed == call.status \in {"parsed", "done"}
Tree == call.result.tree

\* The ids the nodes of a subtree introduce.
FreshIds(node) ==
  LET nodes == Nodes(node)
  IN {nodes[k].i : k \in {j \in 1..Len(nodes) : Introduces(nodes[j])}}

\* The input value a node stands for: the number, or the interned object.
ValueOf(node) == IF HasId(node) THEN call.ctx.refs[node.i + 1] ELSE 0

\* The parse has met the object at address a (it is interned).
Reached(a) ==
  /\ call.status # "idle"
  /\ \E k \in 1..Len(call.ctx.refs) : call.ctx.refs[k] = a

Registered(a) == hasReferenceID(a)

\* The flag that gates a kind of value, for the kinds that have one.
GatedKinds ==
  {"Map", "Set", "Promise", "Thenable", "URL", "URLSearchParams", "Blob", "File",
   "Headers", "FormData"}
GateOf(kind) ==
  CASE kind = "Map" -> "Map"
    [] kind = "Set" -> "Set"
    [] kind \in PromiseKinds -> "Promise"
    [] OTHER -> "WebAPI"
GateOff(a) == heap[a].kind \in GatedKinds /\ GateOf(heap[a].kind) \in options

AggregateKinds == {"AggregateError", "AggregateErrorSubclass"}

Failed == call.status = "rejected" /\ outcome.status = "rejected"

IntroducingNodes(nodes, id) ==
  {k \in 1..Len(nodes) : Introduces(nodes[k]) /\ nodes[k].i = id}

OneIntroducingNode(nodes) ==
  /\ \A id \in 0..(Len(call.ctx.refs) - 1) :
       Cardinality(IntroducingNodes(nodes, id)) = 1
  /\ \A k \in 1..Len(nodes) :
       /\ HasId(nodes[k]) => nodes[k].i \in 0..(Len(call.ctx.refs) - 1)
       /\ BackReference(nodes[k]) => nodes[k].i \in call.ctx.markedRefs

\* C6: in the IR of a finished parse every id is on exactly one introducing
\* node (a full node or a Reference node), every other node with that id is
\* an IndexedValue node, and the id of every IndexedValue node is marked.
C6_OneIntroducingNode == Parsed => OneIntroducingNode(Nodes(Tree))

HasBackReference(nodes) == \E k \in 1..Len(nodes) : BackReference(nodes[k])

\* A cycle through a promise is parsed: the root promise is referred back to.
C6_Witness ==
  /\ Parsed
  /\ Tree.t = "Promise"
  /\ 0 \in call.ctx.markedRefs
  /\ HasBackReference(Nodes(Tree))

(***************************************************************************)
(* C7, C8: the feature gate of the parser.                                 *)
(***************************************************************************)
\* C7 as stated: whenever the parse has reached a value of a gated kind
\* whose flag is off, the call is rejected and stays so.
C7_GatedValueRejects ==
  \A a \in 1..Len(heap) : (Reached(a) /\ GateOff(a)) => Failed

\* C7, amended: whenever the parse has reached a value of a gated kind whose
\* flag is off and the value is not in the identity registry, the call is
\* rejected and stays so; a registered value becomes a Reference node
\* before its kind is looked at.
C7_GatedUnregisteredValueRejects ==
  \A a \in 1..Len(heap) : (Reached(a) /\ GateOff(a) /\ ~Registered(a)) => Failed

\* A gated value below the root is reached with its flag off.
C7_Witness ==
  /\ Failed
  /\ \E a \in 2..Len(heap) : Reached(a) /\ GateOff(a) /\ ~Registered(a)

\* C8 as stated: whenever the parse has reached an AggregateError value with
\* the AggregateError flag off, the call is rejected.
C8_AggregateErrorRejects ==
  \A a \in 1..Len(heap) :
    (Reached(a) /\ heap[a].kind \in AggregateKinds /\ "AggregateError" \in options)
      => Failed

AggregateNodeTag ==
  IF "AggregateError" \in options THEN "Error" ELSE "AggregateError"

IsAggregate(node) ==
  /\ Introduces(node)
  /\ node.t # "Reference"
  /\ ValueOf(node) > 0
  /\ heap[ValueOf(node)].kind \in AggregateKinds

AggregateNodes(nodes) == {k \in 1..Len(nodes) : IsAggregate(nodes[k])}

AggregateErrorFallsBack(nodes) ==
  \A k \in AggregateNodes(nodes) : nodes[k].t = AggregateNodeTag

\* C8, amended: the parser does not fail on an AggregateError value when the
\* flag is off; the node it produces for it (a direct instance or an
\* instance of a subclass) is an Error node, and an AggregateError node only
\* when the flag is on.
C8_AggregateErrorFallsBack == Parsed => AggregateErrorFallsBack(Nodes(Tree))

\* A parse finishes with the flag off and an Error node for an
\* AggregateError value.
C8_Witness ==
  /\ Parsed
  /\ "AggregateError" \in options
  /\ AggregateNodes(Nodes(Tree)) # {}

(***************************************************************************)
(* C9: a failure inside the parse rejects the call.                        *)
(***************************************************************************)
\* The call waits for the promise at address a to settle.
Pending(a) ==
  /\ call.status = "running"
  /\ call.wait = "then"
  /\ Top(call.frames).current = a

\* The promise at a has rejected under the parser's eyes.
HasRejected(a) ==
  /\ heap[a].kind \in PromiseKinds
  /\ heap[a].kids = <<>>
  /\ "Promise" \notin options
  /\ ~Pending(a)

\* The parse step for the value at a throws.
Throws(a) == heap[a].kind = "Unsupported" \/ GateOff(a)

FailsAt(a) == Reached(a) /\ ~Registered(a) /\ (HasRejected(a) \/ Throws(a))

\* C9: once a promise the parser reached has rejected, or the parse step of
\* a reached value has thrown, the call is rejected (with the rejection of
\* that promise) and never resolved, no frame of the parse is left to go
\* on, and no IR has been returned or compiled.
C9_FailureRejects ==
  \A a \in 1..Len(heap) :
    FailsAt(a) =>
      /\ Failed
      /\ call.frames = <<>>
      /\ ~Truthy(call.result)
      /\ compiled.status = "pending"
      /\ HasRejected(a) => outcome.error = "rejected"

\* A promise rejects below the root after a sibling has been parsed.
C9_Witness ==
  /\ Failed
  /\ Len(call.ctx.refs) >= 3
  /\ \E a \in 2..Len(heap) : FailsAt(a) /\ HasRejected(a)

(***************************************************************************)
(* C10: eager children are parsed before deferred ones.                    *)
(***************************************************************************)
RECURSIVE Select(_, _, _)
\* The indices k of 1..n with test[k], in order.
Select(n, test, k) ==
  IF k > n THEN <<>>
  ELSE (IF test[k] THEN <<k>> ELSE <<>>) \o Select(n, test, k + 1)

\* The order in which the entries 1..n are parsed: the eager ones, then the
\* deferred ones, each group in insertion order.
ParseOrder(n, deferred, present) ==
  Select(n, [k \in 1..n |-> present[k] /\ ~deferred[k]], 1)
    \o Select(n, [k \in 1..n |-> present[k] /\ deferred[k]], 1)

\* Every id introduced in an earlier subtree is below every id introduced
\* in a later one.
IdsAscend(subtrees) ==
  \A j, k \in 1..Len(subtrees) :
    j < k => \A x \in FreshIds(subtrees[j]), y \in FreshIds(subtrees[k]) : x < y

\* The values the nodes of a list stand for.
ValuesOf(nodes) == [k \in 1..Len(nodes) |-> ValueOf(nodes[k])]

\* An Array node against the elements: every element at its index, parsed
\* in the order ParseOrder gives.
ArrayInOrder(node, elements) ==
  LET order == ParseOrder(Len(elements),
                          [k \in 1..Len(elements) |-> isIterable(elements[k])],
                          [k \in 1..Len(elements) |-> ~IsHole(elements[k])])
  IN /\ Len(node.a) = Len(elements)
     /\ \A k \in 1..Len(elements) :
          IF IsHole(elements[k]) THEN ~Truthy(node.a[k])
          ELSE ValueOf(node.a[k]) = elements[k]
     /\ IdsAscend([k \in 1..Len(order) |-> node.a[order[k]]])

\* The nodes of a Set or of the values of a record against the elements.
ListInOrder(nodes, elements) ==
  LET order == ParseOrder(Len(elements),
                          [k \in 1..Len(elements) |-> isIterable(elements[k])],
                          [k \in 1..Len(elements) |-> TRUE])
  IN /\ Len(nodes) >= Len(elements)
     /\ \A k \in 1..Len(elements) : ValueOf(nodes[k]) = elements[order[k]]
     /\ IdsAscend(nodes)

KeysInOrder(keyNodes, elements) ==
  LET order == ParseOrder(Len(elements),
                          [k \in 1..Len(elements) |-> isIterable(elements[k])],
                          [k \in 1..Len(elements) |-> TRUE])
  IN \A k \in 1..Len(elements) :
       keyNodes[k] = Text(serializeString(KeyName(order[k])))

\* A Map node against the entries: a pair is deferred when its key or its
\* value is iterable, and a key is parsed before its value.
MapInOrder(node, keys, values) ==
  LET order == ParseOrder(Len(keys),
                          [k \in 1..Len(keys) |->
                             isIterable(keys[k]) \/ isIterable(values[k])],
                          [k \in 1..Len(keys) |-> TRUE])
  IN /\ Len(node.d.k) = Len(keys)
     /\ Len(node.d.v) = Len(keys)
     /\ \A k \in 1..Len(keys) :
          /\ ValueOf(node.d.k[k]) = keys[order[k]]
          /\ ValueOf(node.d.v[k]) = values[order[k]]
     /\ IdsAscend([k \in 1..(2 * Len(keys)) |->
                     IF k % 2 = 1 THEN node.d.k[(k + 1) \div 2]
                     ELSE node.d.v[k \div 2]])

\* A container node against the object it was parsed from.
ContainerInOrder(node, object) ==
  CASE node.t = "Array" -> ArrayInOrder(node, object.kids)
    [] node.t = "Set" -> ListInOrder(node.a, object.kids)
    [] node.t = "Map" -> MapInOrder(node, object.kids, object.vals)
    [] HasRecord(node, "d") ->
         ListInOrder(node.d.v, object.kids) /\ KeysInOrder(node.d.k, object.kids)
    [] OTHER -> TRUE

Containers(nodes) ==
  {k \in 1..Len(nodes) : Introduces(nodes[k]) /\ ValueOf(nodes[k]) > 0}

AllInOrder(nodes) ==
  \A k \in Containers(nodes) : ContainerInOrder(nodes[k], heap[ValueOf(nodes[k])])

\* C10: in the IR of a finished parse, the children of every array, set,
\* map and record were parsed eager ones first and deferred (iterable) ones
\* after them, each group in insertion order (a map pair is deferred when
\* its key or its value is iterable): every id introduced inside a child is
\* below every id introduced inside a child parsed after it, and sets, maps
\* and records list their children in that order.
C10_EagerBeforeDeferred == Parsed => AllInOrder(Nodes(Tree))

\* An array whose first element is iterable and whose second is an object:
\* the object is parsed, and numbered, first.
C10_Witness ==
  /\ Parsed
  /\ heap[1].kind = "Array"
  /\ Len(heap[1].kids) = 2
  /\ isIterable(heap[1].kids[1])
  /\ IsObject(heap[1].kids[2])
  /\ ~isIterable(heap[1].kids[2])
  /\ call.ctx.refs[2] = heap[1].kids[2]
  /\ call.ctx.refs[3] = heap[1].kids[1]

(***************************************************************************)
(* Claims about calls in progress at the same time, under SpecPair.        *)
(***************************************************************************)

\* One turn of a parse: the innermost suspended function resumes.
turn(p) ==
  CASE p.wait = "node" -> Resume([p EXCEPT !.frames = Pop(@)], Top(p.frames), p.ret)
    [] p.wait = "then" -> thenCallback([p EXCEPT !.frames = Pop(@)], Top(p.frames))
    [] p.wait = "buffer" -> bufferRead([p EXCEPT !.frames = Pop(@)], Top(p.frames))

\* The states a parse goes through when it is the only call, from p on.
RECURSIVE AloneStates(_)
AloneStates(p) ==
  IF p.status = "running" /\ p.frames # <<>> THEN {p} \cup AloneStates(turn(p))
  ELSE {p}

\* The last of them: parse has returned to parseAsync, or it has thrown.
RECURSIVE runAlone(_)
runAlone(p) ==
  IF p.status = "running" /\ p.frames # <<>> THEN runAlone(turn(p)) ELSE p

AloneOutcome(name, src, p) ==
  IF p.status = "rejected" THEN Rejected(p.error)
  ELSE returnAsync(name, p.ctx, parseAsyncResult(p.ctx, src, p.ret))

\* What the call settles with when no other call is in progress.
Alone(name, src) ==
  AloneOutcome(name, src, runAlone(parseAsync(createParserContext(options), src)))

Emitted == emit.status = "done" /\ emit.text.status = "resolved"

\* The lexeme that ends the parameter list of the wrapper (0: no wrapper).
HeaderEnd(text) ==
  IF \E k \in 1..Len(text) : text[k] \in {"=>(", "){return "}
  THEN CHOOSE k \in 1..Len(text) :
         /\ text[k] \in {"=>(", "){return "}
         /\ \A j \in 1..(k - 1) : text[j] \notin {"=>(", "){return "}
  ELSE 0

\* The places of the body where `name=` stands, and those where name is read.
Binds(text, name) ==
  {k \in (HeaderEnd(text) + 1)..(Len(text) - 1) : text[k] = name /\ text[k + 1] = "="}

Reads(text, name) ==
  {k \in (HeaderEnd(text) + 1)..Len(text) :
     text[k] = name /\ (k < Len(text) => text[k + 1] # "=")}

\* C12: when compileJSON returns, every id of the marked set of the emitter's
\* context has a binding `vN=` in the returned text and is read at least once
\* more in it.
C12_MarkedBoundAndRead ==
  Emitted =>
    \A id \in emit.result.ctx.markedRefs :
      /\ Binds(emit.text.value, getIdentifier(id)) # {}
      /\ Reads(emit.text.value, getIdentifier(id)) # {}

\* text has the lexemes of piece, one after the other, somewhere.
Contains(text, piece) ==
  \E k \in 0..(Len(text) - Len(piece)) : SubSeq(text, k + 1, k + Len(piece)) = piece

\* The root is a record with a first property; its key is emit.key.
RootHasKey == heap[1].kind \in {"Object", "NullProto"} /\ heap[1].kids # <<>>

\* A decimal integer literal without a sign and without leading zeros.
IsIntegerLiteral(key) ==
  key # <<>> /\ AllIn(key, Digits) /\ (Len(key) > 1 => key[1] # "0")

\* 'key': in an object literal, or v['key']= in an assignment.
KeyQuoted(text, key) ==
  \/ Contains(text, quote(key) \o <<":">>)
  \/ Contains(text, <<"[">> \o quote(key) \o <<"]", "=">>)

\* C13: the first key of the root record is emitted without quotes if and only
\* if it is a non-negative integer literal or matches the identifier pattern,
\* and between quotes otherwise.
C13_BareIffIntegerOrIdentifier ==
  Emitted /\ RootHasKey =>
    (KeyQuoted(emit.text.value, serializeString(emit.key))
       <=> ~(IsIntegerLiteral(emit.key) \/ IDENTIFIER_CHECK(emit.key)))

\* The lexemes the emitter writes that hold `=>`.
ArrowLexemes == {"=>(", "{[Symbol.iterator]:()=>", "Promise.resolve().then(()=>"}

\* C14: when the ArrowFunction flag is off in the envelope, the text that
\* compileJSON returns holds no `=>`.
C14_NoArrowWhenOff ==
  Emitted /\ "ArrowFunction" \notin emit.envelope.f =>
    \A k \in 1..Len(emit.text.value) : emit.text.value[k] \notin ArrowLexemes

\* C15: on every tree that parseAsync returned, SerovalSerializer.serialize
\* returns a text: it does not throw.
C15_EmitterTotal ==
  call.status \in {"parsed", "done"} =>
    serialize(createSerializationContext(call.ctx), call.result.tree).ok

(***************************************************************************)
(* The order of evaluation of an emitted text.  The lexemes are evaluated  *)
(* from left to right; `vN=<expr>` has bound vN when <expr> is at its end  *)
(* (the next comma at the same depth of brackets, or the bracket that      *)
(* closes around it); the body of the iterator method and of the then      *)
(* callback is not evaluated with the expression, but later.               *)
(***************************************************************************)
Openers(tok) ==
  CASE tok \in {"(", "[", "{", ".set(", ".add(", "new Date(", "new AggregateError(",
                "Object.assign(", "Promise.resolve(", "Promise.resolve().then(()=>",
                "{[Symbol.iterator]:()=>"} -> 1
    [] tok \in {"([", "{[Symbol.iterator](){return ",
                "{[Symbol.iterator]:function(){return "} -> 2
    [] OTHER -> 0

Closers(tok) ==
  CASE tok \in {")", "]", "}"} -> 1
    [] tok \in {"])", "}}"} -> 2
    [] OTHER -> 0

LazyLexemes ==
  {"{[Symbol.iterator]:()=>", "{[Symbol.iterator](){return ",
   "{[Symbol.iterator]:function(){return ", "Promise.resolve().then(()=>"}

IsVariable(tok) == \E id \in 0..(2 * Len(heap)) : tok = getIdentifier(id)

\* The body of the wrapper: the text between `=>(` or `){return ` and the
\* lexeme that closes the wrapper; the whole text when there is no wrapper.
Body(text) ==
  IF HeaderEnd(text) = 0 THEN text
  ELSE SubSeq(text, HeaderEnd(text) + 1, Len(text) - 1)

\* Before the first lexeme: depth 0, not in a string, not in a function
\* body (lazy is the depth the function body was opened at), nothing bound.
Start == [depth |-> 0, str |-> FALSE, lazy |-> 0 - 1, pending |-> {}, bound |-> {}]

\* The bindings whose right-hand side has ended when the depth is d.
Ended(st, d) == {b \in st.pending : b.depth >= d}

complete(st, d) ==
  [st EXCEPT !.bound = @ \cup {b.name : b \in Ended(st, d)},
             !.pending = @ \ Ended(st, d)]

\* After the lexeme tok, which is followed by nx.
closed(st, tok) ==
  IF Closers(tok) = 0 THEN st
  ELSE [complete(st, st.depth - Closers(tok) + 1) EXCEPT
          !.depth = @ - Closers(tok),
          !.lazy = IF st.depth - Closers(tok) <= @ THEN 0 - 1 ELSE @]

opened(st, tok, nx) ==
  [st EXCEPT
     !.pending = IF IsVariable(tok) /\ nx = "=" /\ st.lazy < 0
                 THEN @ \cup {[name |-> tok, depth |-> st.depth]} ELSE @,
     !.lazy = IF tok \in LazyLexemes /\ @ < 0 THEN st.depth ELSE @,
     !.depth = @ + Openers(tok)]

step(st, tok, nx) ==
  IF st.str THEN [st EXCEPT !.str = tok # "QUOTE"]
  ELSE IF tok = "QUOTE" THEN [st EXCEPT !.str = TRUE]
  ELSE IF tok = "," THEN complete(st, st.depth)
  ELSE opened(closed(st, tok), tok, nx)

\* vN is read at this lexeme, with the expression, before vN is bound.
IsEarlyRead(st, tok, nx) ==
  /\ ~st.str
  /\ st.lazy < 0
  /\ IsVariable(tok)
  /\ nx # "="
  /\ tok \notin st.bound

RECURSIVE EarlyReads(_, _, _)
EarlyReads(body, k, st) ==
  IF k > Len(body) THEN {}
  ELSE (IF IsEarlyRead(st, body[k], IF k < Len(body) THEN body[k + 1] ELSE "")
        THEN {k} ELSE {})
         \cup EarlyReads(body, k + 1,
                         step(st, body[k], IF k < Len(body) THEN body[k + 1] ELSE ""))

\* C16: in the text compileJSON returns, no variable is read, in the order of
\* evaluation, before the binding `vN=<expr>` of that variable has completed.
C16_ReadAfterBinding ==
  Emitted => EarlyReads(Body(emit.text.value), 1, Start) = {}

\* The root expression E, the patches P and the root's variable, as the
\* emitter left them when compileJSON called finalize.
RootExpr == emit.result.out
Patches == resolvePatches(emit.result.ctx)
RootVar == getIdentifier(emit.envelope.r)

\* E, with `vRoot=` in front unless E starts with it.
BoundRootExpr ==
  IF startsWith(RootExpr, <<RootVar, "=">>) THEN RootExpr
  ELSE <<RootVar, "=">> \o RootExpr

\* C17: when a variable was allocated and there are deferred patches, the body
\* of the wrapper is `E,P,vRoot`, with `vRoot=` in front of E exactly when E
\* does not start with it; vRoot is bound in E only, not in a patch, so the
\* value of the text is the object of the root node.  For a = {}; a.a = a
\* the body is `v0={},v0.a=v0,v0`.
C17_BodyIsRootPatchesRoot ==
  Emitted /\ emit.result.ctx.vars # <<>> /\ Patches # <<>> =>
    /\ Body(emit.text.value) = BoundRootExpr \o <<",">> \o Patches \o <<RootVar>>
    /\ \A k \in Binds(Body(emit.text.value), RootVar) : k <= Len(BoundRootExpr)
    /\ (heap = <<Obj("Object", <<1>>, <<>>)>> /\ emit.key = <<"a">> =>
          Body(emit.text.value) =
            <<"v0", "=", "{", "}", ",", "v0", ".", "a", "=", "v0", ",", "v0">>)

\* The only cycle is below a root that is not marked: `vRoot=` is put in
\* front of E, and the text ends with the root's variable.
C17_Witness ==
  /\ Emitted
  /\ Patches # <<>>
  /\ emit.envelope.r \notin emit.result.ctx.markedRefs
  /\ ~startsWith(RootExpr, <<RootVar, "=">>)
  /\ startsWith(Body(emit.text.value), <<RootVar, "=">>)

\* The parameters of the wrapper.
Params(text) ==
  {text[k] : k \in {j \in 1..HeaderEnd(text) : IsVariable(text[j])}}

\* C18: every variable name in the text compileJSON returns is a parameter of
\* the wrapper; when the emitter allocated no variable the text is the root
\* expression E, between parentheses exactly when the root node is an Object
\* node.
C18_VariablesAreParameters ==
  Emitted =>
    /\ \A k \in 1..Len(emit.text.value) :
         IsVariable(emit.text.value[k]) => emit.text.value[k] \in Params(emit.text.value)
    /\ emit.result.ctx.vars = <<>> =>
         emit.text.value = IF emit.envelope.t.t = "Object"
                           THEN <<"(">> \o RootExpr \o <<")">>
                           ELSE RootExpr

\* The root's variable is first asked for by finalize (the root is not
\* marked, a patch below it allocated another variable), and it is a
\* parameter next to that other one.
C18_Witness ==
  /\ Emitted
  /\ \A k \in 1..Len(emit.result.ctx.vars) : emit.result.ctx.vars[k] # RootVar
  /\ RootVar \in Params(emit.text.value)
  /\ Cardinality(Params(emit.text.value)) >= 2

(***************************************************************************)
(* The array literals of an emitted text.                                  *)
(***************************************************************************)
\* The slots of the literal whose `[` is just before text[k]: TRUE for an
\* element, FALSE for an elision; an elision before `]` is not a slot.
RECURSIVE slotsFrom(_, _, _, _, _, _)
slotsFrom(text, k, depth, quoted, filled, acc) ==
  IF k > Len(text) THEN acc
  ELSE IF quoted THEN slotsFrom(text, k + 1, depth, text[k] # "QUOTE", TRUE, acc)
  ELSE IF text[k] = "QUOTE" THEN slotsFrom(text, k + 1, depth, TRUE, TRUE, acc)
  ELSE IF depth = 0 /\ text[k] = "]" THEN (IF filled THEN Append(acc, TRUE) ELSE acc)
  ELSE IF depth = 0 /\ text[k] = ","
  THEN slotsFrom(text, k + 1, 0, FALSE, FALSE, Append(acc, filled))
  ELSE slotsFrom(text, k + 1, depth - Closers(text[k]) + Openers(text[k]),
                 FALSE, TRUE, acc)

LiteralSlots(text, k) ==
  IF k <= Len(text) /\ text[k] = "[" THEN slotsFrom(text, k + 1, 0, FALSE, FALSE, <<>>)
  ELSE <<>>

\* The Array nodes of a tree, each with the ids of the nodes around it.
EmitChildren(node) ==
  Children(node) \o (IF "n" \in DOMAIN node THEN <<node.n>> ELSE <<>>)

RECURSIVE ArraysIn(_, _)
ArraysIn(node, up) ==
  IF ~Truthy(node) \/ "i" \notin DOMAIN node \/ node.t = "Reference" THEN {}
  ELSE (IF node.t = "Array" THEN {[node |-> node, up |-> up \cup {node.i}]} ELSE {})
         \cup UNION {ArraysIn(EmitChildren(node)[j], up \cup {node.i})
                     : j \in 1..Len(EmitChildren(node))}

\* The place of the `[` of an array node: after its binding, or at the
\* start of the body for a root that has none; 0 when the node has neither.
LiteralStart(text, node) ==
  IF Binds(text, getIdentifier(node.i)) # {}
  THEN 2 + CHOOSE k \in Binds(text, getIdentifier(node.i)) : TRUE
  ELSE IF node.i = emit.envelope.r THEN HeaderEnd(text) + 1
  ELSE 0

\* The child at index i (from 0) is a back-reference to a node around it.
IsAncestorSlot(r, i) ==
  /\ Truthy(r.node.a[i + 1])
  /\ r.node.a[i + 1].t = "Reference"
  /\ r.node.a[i + 1].i \in r.up

\* The deferred entries that write vAncestor to index i of the array.
IndexAssignments(r, i) ==
  {j \in 1..Len(emit.result.ctx.assignments) :
     /\ emit.result.ctx.assignments[j].t = "index"
     /\ emit.result.ctx.assignments[j].s =
          <<getIdentifier(r.node.i), "[", ToString(i), "]">>
     /\ emit.result.ctx.assignments[j].v = <<getIdentifier(r.node.a[i + 1].i)>>}

ArrayLiteralOf(r, slots) ==
  /\ Len(slots) = Len(r.node.a)
  /\ \A i \in 0..(Len(r.node.a) - 1) :
       i + 1 <= Len(slots) =>
         (slots[i + 1] <=> Truthy(r.node.a[i + 1]) /\ ~IsAncestorSlot(r, i))

\* C19: the literal of every array node of n slots has n slots, an elision
\* exactly where the child is a hole or a back-reference to a node around
\* the array, and for each such back-reference there is one deferred
\* assignment `vArray[i]=vAncestor`.  (The literal is looked at where the
\* text tells which one it is: after the binding of the array's variable,
\* or at the start for the root.)
C19_ArrayLiteralDenotesArray ==
  Emitted =>
    \A r \in ArraysIn(emit.envelope.t, {}) :
      /\ \A i \in 0..(Len(r.node.a) - 1) :
           IsAncestorSlot(r, i) => Cardinality(IndexAssignments(r, i)) = 1
      /\ LiteralStart(emit.text.value, r.node) # 0 =>
           ArrayLiteralOf(r, LiteralSlots(emit.text.value,
                                          LiteralStart(emit.text.value, r.node)))

(***************************************************************************)
(* Executing deferred assignments.  An expression is read from its text:   *)
(* `t1=t2=...=value` evaluates value once and writes it to the targets     *)
(* from right to left; `s.set(k,v).set(k2,v2)` and `s.add(v).add(v2)` call *)
(* on s from left to right.                                                *)
(***************************************************************************)
\* The pieces of text between the lexemes of seps that stand outside every
\* bracket and string.
RECURSIVE splitAt(_, _, _, _, _, _, _)
splitAt(text, k, depth, quoted, seps, cur, acc) ==
  IF k > Len(text) THEN Append(acc, cur)
  ELSE IF quoted
  THEN splitAt(text, k + 1, depth, text[k] # "QUOTE", seps, Append(cur, text[k]), acc)
  ELSE IF text[k] = "QUOTE"
  THEN splitAt(text, k + 1, depth, TRUE, seps, Append(cur, text[k]), acc)
  ELSE IF depth = 0 /\ text[k] \in seps
  THEN splitAt(text, k + 1, Openers(text[k]), FALSE, seps, <<>>, Append(acc, cur))
  ELSE splitAt(text, k + 1, depth - Closers(text[k]) + Openers(text[k]), FALSE,
               seps, Append(cur, text[k]), acc)

Pieces(text, seps) == splitAt(text, 1, 0, FALSE, seps, <<>>, <<>>)

\* Evaluating the text makes a new object: it is not a variable or a number.
Constructs(value) == ~(Len(value) = 1 /\ (IsVariable(value[1]) \/ value[1] = "0"))

\* The writes of `t1=...=tm=value`; made is the number of the object that
\* the value is (0 when it is not a new one).
writesOf(parts, made) ==
  [j \in 1..(Len(parts) - 1) |->
     [op |-> "write", target |-> parts[Len(parts) - j],
      value |-> parts[Len(parts)], made |-> made]]

\* The calls of `s.set(k,v)...` or `s.add(v)...`: the receiver is s, the
\* arguments are the text up to the closing parenthesis.
callsOf(op, parts) ==
  [j \in 1..(Len(parts) - 1) |->
     [op |-> op, target |-> parts[1],
      value |-> SubSeq(parts[j + 1], 1, Len(parts[j + 1]) - 1), made |-> 0]]

IndexParts(assignment) == Pieces(getAssignmentExpression(assignment), {"="})

Makes(assignment) ==
  assignment.t = "index"
    /\ Constructs(IndexParts(assignment)[Len(IndexParts(assignment))])

\* What executing the expressions of a list, one after the other, does;
\* made objects have been made before.
RECURSIVE Execute(_, _, _)
Execute(list, k, made) ==
  IF k > Len(list) THEN <<>>
  ELSE IF list[k].t = "index"
  THEN writesOf(IndexParts(list[k]), IF Makes(list[k]) THEN made + 1 ELSE 0)
         \o Execute(list, k + 1, IF Makes(list[k]) THEN made + 1 ELSE made)
  ELSE callsOf(list[k].t, Pieces(getAssignmentExpression(list[k]), {".set(", ".add("}))
         \o Execute(list, k + 1, made)

\* The list serializeAssignments collects for the fields of the root, when
\* the root is a null-prototype object that is emitted without Object.assign.
RECURSIVE mainAssignmentsLoop(_, _, _, _, _)
mainAssignmentsLoop(ctx, sourceID, node, i, mainAssignments) ==
  IF i >= node.s THEN mainAssignments
  ELSE mainAssignmentsLoop(
         [assignMain(serialize([ctx EXCEPT !.stack = <<>>], node.v[i + 1]), ctx.stack,
                     sourceID, node.k[i + 1], mainAssignments)
            EXCEPT !.assignments =
                     serialize([ctx EXCEPT !.stack = <<>>], node.v[i + 1]).ctx.assignments],
         sourceID, node, i + 1,
         assignMain(serialize([ctx EXCEPT !.stack = <<>>], node.v[i + 1]), ctx.stack,
                    sourceID, node.k[i + 1], mainAssignments).assignments)

RootAssigns ==
  /\ Emitted
  /\ emit.envelope.t.t = "NullConstructor"
  /\ "ObjectAssign" \notin emit.envelope.f
  /\ emit.envelope.t.d.s > 0

MainAssignments ==
  mainAssignmentsLoop(push(emitMarkRef(serialOf(emit.envelope), emit.envelope.t.i),
                           emit.envelope.t.i),
                      emit.envelope.t.i, emit.envelope.t.d, 0, <<>>)

SameExecution(list) == Execute(mergeAssignments(list), 1, 0) = Execute(list, 1, 0)

\* C20: executing the expressions mergeAssignments returns performs the
\* writes, Map.set calls and Set.add calls of the list it was given, in the
\* same order, on the same targets, with the same keys and values; for the
\* patches of the context and for the list serializeAssignments collects.
C20_MergedExecutesTheSame ==
  /\ Emitted /\ emit.result.ctx.assignments # <<>> =>
       SameExecution(emit.result.ctx.assignments)
  /\ RootAssigns => SameExecution(MainAssignments)

\* C21: a call of parseAsync that has started comes to its end: it returns
\* its result or it is rejected.
C21_ParseAsyncTerminates ==
  (calls # <<>> /\ Running(1))
    ~> (calls # <<>> /\ calls[1].run.status \in {"parsed", "done", "rejected"})

\* The parse of the cycle through an array, an object, a map, a set and a
\* promise has returned, after it waited for the promise.
C21_Witness ==
  /\ calls # <<>>
  /\ Len(heap) = 5
  /\ settled # {}
  /\ calls[1].run.status = "parsed"

\* The writes to fields (and not to variables) that executing the merged list
\* of the root's fields performs.
MergedWrites ==
  LET done == Execute(mergeAssignments(MainAssignments), 1, 0)
  IN  {k \in DOMAIN done : done[k].op = "write" /\ Len(done[k].target) > 1}

\* C22: with ObjectAssign off, the fields of a null-prototype root never come
\* to share one object: no object that the execution of the merged field
\* assignments makes is written to two fields.
C22_DistinctObjectsStayDistinct ==
  RootAssigns =>
    LET done == Execute(mergeAssignments(MainAssignments), 1, 0)
    IN  \A i, j \in MergedWrites :
          (i # j /\ done[i].made > 0) => done[i].made # done[j].made

\* The nodes of the emitted tree that a method of the emitter is called for.
RECURSIVE EmitNodes(_)
EmitNodes(node) ==
  IF ~Truthy(node) \/ "i" \notin DOMAIN node \/ node.t = "Reference" THEN {}
  ELSE {node} \cup UNION {EmitNodes(EmitChildren(node)[j])
                          : j \in 1..Len(EmitChildren(node))}

\* The stacks and the lists of deferred assignments a method is entered with.
EntryStacks == {<<>>} \cup {<<j>> : j \in 0..(Len(heap) - 1)}
EntryAssignments ==
  {<<>>, <<[t |-> "index", s |-> <<"v9", "[", "0", "]">>, k |-> <<>>, v |-> <<"v8">>]>>}

\* The context of the emitter at the entry of a method.
entered(stack, assignments) ==
  [serialOf(emit.envelope) EXCEPT !.stack = stack, !.assignments = assignments]

StartsWith(list, prefix) ==
  Len(prefix) <= Len(list) /\ SubSeq(list, 1, Len(prefix)) = prefix

\* A method that returns leaves the stack as it was, and the list of deferred
\* assignments with what it had at its front.
FrameKept(node, stack, assignments) ==
  LET r == serialize(entered(stack, assignments), node)
  IN  r.ok => r.ctx.stack = stack /\ StartsWith(r.ctx.assignments, assignments)

\* The children of a node with the stack each one is to be emitted with,
\* when the node is entered with ctx: the stack with the node's id on it,
\* or the empty stack for the elements of an Iterable, for the values that
\* serializeAssignments emits and for the lifted pairs of a Map.
ChildSites(ctx, node) ==
  LET in == push(ctx, node.i)
      fields == IF HasRecord(node, "d") /\ node.t # "Map"
                THEN {[child |-> node.d.v[j],
                       stack |-> IF node.t = "Object" \/ HasFeature(ctx, "ObjectAssign")
                                 THEN in.stack ELSE <<>>] : j \in 1..node.d.s}
                ELSE {}
      items == IF "a" \in DOMAIN node
               THEN {[child |-> node.a[j],
                      stack |-> IF node.t = "Iterable" THEN <<>> ELSE in.stack]
                     : j \in 1..Len(node.a)}
               ELSE {}
      pairs == IF HasRecord(node, "d") /\ node.t = "Map"
               THEN UNION {{[child |-> node.d.k[j],
                             stack |-> IF isReferenceInStack(in, node.d.v[j])
                                       THEN <<>> ELSE in.stack],
                            [child |-> node.d.v[j],
                             stack |-> IF isReferenceInStack(in, node.d.k[j])
                                       THEN <<>> ELSE in.stack]} : j \in 1..node.d.s}
               ELSE {}
      value == IF "n" \in DOMAIN node THEN {[child |-> node.n, stack |-> in.stack]}
               ELSE {}
  IN  {site \in fields \cup items \cup pairs \cup value : EmitNodes(site.child) # {}}

\* The text is part of what the method returned or of an assignment it deferred.
EmittedIn(r, text) ==
  \/ Contains(r.out, text)
  \/ \E j \in 1..Len(r.ctx.assignments) :
       Contains(r.ctx.assignments[j].k, text) \/ Contains(r.ctx.assignments[j].v, text)

\* The text of each child is the text it has when it is emitted with the
\* stack of its place.
ChildrenInside(node, stack) ==
  LET r == serialize(entered(stack, <<>>), node)
  IN  r.ok =>
        \A site \in ChildSites(entered(stack, <<>>), node) :
          LET c == serialize(entered(site.stack, <<>>), site.child)
          IN  c.ok => EmittedIn(r, c.out)

\* C23: every method of the emitter that returns leaves ctx.stack as it was
\* on entry and ctx.assignments with the entries it had, in front of those it
\* added; the children of a node are emitted with the node's id on the stack,
\* or with the empty stack for the elements of an Iterable, the values of
\* serializeAssignments and the lifted pairs of a Map.
C23_StackAndAssignmentsKept ==
  Emitted =>
    \A node \in EmitNodes(emit.envelope.t) :
      \A stack \in EntryStacks :
        /\ \A assignments \in EntryAssignments : FrameKept(node, stack, assignments)
        /\ ChildrenInside(node, stack)

\* The stack of the place decides the text of the child: with the other
\* stack (the empty one, or the one with the node's id) the text differs.
Decides(node, stack, site) ==
  LET ctx == entered(stack, <<>>)
      other == IF site.stack = <<>> THEN push(ctx, node.i).stack ELSE <<>>
  IN  /\ serialize(ctx, node).ok
      /\ serialize(entered(site.stack, <<>>), site.child).ok
      /\ serialize(entered(site.stack, <<>>), site.child).out
           # serialize(entered(other, <<>>), site.child).out

\* A node of the kind has returned that has a child whose text the stack
\* decides, in a place where the stack is empty (or is not).
Deciding(kind, emptied) ==
  \E node \in EmitNodes(emit.envelope.t) :
    /\ node.t = kind
    /\ \E site \in ChildSites(entered(<<>>, <<>>), node) :
         (site.stack = <<>>) = emptied /\ Decides(node, <<>>, site)

\* The emitter has returned the text of a map with a pair that is emitted
\* in its literal and a lifted pair, each one with a child that holds the map.
C23_Witness ==
  /\ Emitted
  /\ Deciding("Map", FALSE)
  /\ Deciding("Map", TRUE)
  /\ emit.result.ctx.stack = <<>>
  /\ emit.result.ctx.assignments # <<>>


====
